---- MODULE Spec2Model ----
(***************************************************************************)
(* Model of the growable byte buffers of pashifika/util:                   *)
(*   mem.FakeIO          src/mem/buffer.go                                 *)
(*   mem.SyncFakeIO      src/mem/buffer_sync.go                            *)
(*   mem.SingleFakeIO    src/unnamed/part_002                              *)
(*   men_buffer.FakeIO   src/men_buffer/buffer.go                          *)
(*                                                                         *)
(* A Go slice is modelled by its backing array (arr, of length cap), its   *)
(* length (len) and whether it is the nil slice (isnil).  Bytes beyond len *)
(* are kept, because reslicing makes them visible again.                   *)
(***************************************************************************)
EXTENDS Integers, Sequences, FiniteSets, TLC

VARIABLES
    kind,     \* which of the four buffer types the behaviour is about
    fio,      \* the buffer: its fields
    last,     \* the most recent call: its name and what it returned
    track,    \* whether the behaviour records written / readOut / tainted
    written,  \* the bytes the write family has stored so far, in order
    readOut,  \* the bytes the read family has returned since the last seek
    tainted,  \* a write-family call has followed a call of another family
    lock,     \* the holder of fio.m (0 when it is free)
    pc,       \* the position of each concurrent caller
    wl,       \* a writer's local l of tryGrowByReslice
    wm,       \* a writer's local m of Write
    todo      \* the number of records each writer has still to write

vars == <<kind, fio, last, track, written, readOut, tainted, lock, pc, wl, wm, todo>>

(***************************************************************************)
(* Bounds of the model.                                                    *)
(***************************************************************************)
\* largest stored length len(fio.buf) a call may produce
MaxLen == 2
\* total number of bytes a tracking behaviour writes
MaxTotal == 5
\* largest explicit initial capacity (besides the default smallBufferSize)
MaxCap == 1
\* largest len(p) handed to Read
MaxRead == 2

(***************************************************************************)
(* Program constants.                                                      *)
(***************************************************************************)
smallBufferSize == 64
MinRead == 512
chunkSize == 4096
defaultBufSize == 4096
opRead == -1
opInvalid == 0
opReadRune1 == 1
RuneSelf == 128
UTFMax == 4
RuneError == 65533
MaxRune == 1114111
SeekStart == 0
SeekCurrent == 1
SeekEnd == 2

(***************************************************************************)
(* Inputs.                                                                 *)
(***************************************************************************)
\* '\n' and 'a'; WriteRune adds the two bytes of U+00E9 (0xC3 0xA9)
Bytes == {10, 97}
Chunks == {<<>>, <<97>>, <<97, 10>>}
AtChunks == {<<97>>, <<97, 10>>}
Runes == {97, 233}
Delims == {10}

Min(a, b) == IF a < b THEN a ELSE b
Max(a, b) == IF a > b THEN a ELSE b

(***************************************************************************)
(* Go slices.                                                              *)
(***************************************************************************)
\* make([]byte, n): n zero bytes
Zeros(n) == [j \in 1..n |-> 0]

\* cap(fio.buf)
Cap(f) == Len(f.arr)

\* fio.buf[a:b] as a value (0-based, half open); the caller checks the bounds
Slice(f, a, b) == SubSeq(f.arr, a + 1, b)

\* copy(dst, src) where dst starts at index pos of the array and has room for
\* `room` bytes: the number of bytes copied
CopyN(room, src) == Min(room, Len(src))

\* the array after copy(arr[pos:pos+room], src)
CopyAt(arr, pos, room, src) ==
    [j \in 1..Len(arr) |->
        IF pos < j /\ j <= pos + CopyN(room, src) THEN src[j - pos] ELSE arr[j]]

\* append(nil, s...) and string(s): a fresh copy of the bytes
CopyOf(s) == [j \in 1..Len(s) |-> s[j]]

\* the index of the last c in s instead of the first
IndexByte_last(s, c) ==
    IF \E j \in 1..Len(s) : s[j] = c
    THEN (CHOOSE j \in 1..Len(s) : s[j] = c /\ \A h \in (j + 1)..Len(s) : s[h] # c) - 1
    ELSE -1

\* bytes.IndexByte(s, c): 0-based index of the first c in s, or -1
IndexByte(s, c) ==
    IF \E j \in 1..Len(s) : s[j] = c
    THEN (CHOOSE j \in 1..Len(s) : s[j] = c /\ \A h \in 1..(j - 1) : s[h] # c) - 1
    ELSE -1

(***************************************************************************)
(* unicode/utf8, as the buffers call it.                                   *)
(***************************************************************************)
IsCont(s, j, lo, hi) == Len(s) >= j /\ s[j] >= lo /\ s[j] <= hi

\* utf8.DecodeRune(s) for a non-empty s: the rune and its width; an invalid or
\* truncated encoding decodes as (RuneError, 1)
DecodeRune(s) ==
    LET b == s[1]
        bad == [r |-> RuneError, size |-> 1]
        lo2 == IF b = 224 THEN 160 ELSE IF b = 240 THEN 144 ELSE 128
        hi2 == IF b = 237 THEN 159 ELSE IF b = 244 THEN 143 ELSE 191
    IN  IF b < RuneSelf THEN [r |-> b, size |-> 1]
        ELSE IF b >= 194 /\ b <= 223
        THEN IF IsCont(s, 2, 128, 191)
             THEN [r |-> (b - 192) * 64 + (s[2] - 128), size |-> 2]
             ELSE bad
        ELSE IF b >= 224 /\ b <= 239
        THEN IF IsCont(s, 2, lo2, hi2) /\ IsCont(s, 3, 128, 191)
             THEN [r |-> (b - 224) * 4096 + (s[2] - 128) * 64 + (s[3] - 128),
                   size |-> 3]
             ELSE bad
        ELSE IF b >= 240 /\ b <= 244
        THEN IF IsCont(s, 2, lo2, hi2) /\ IsCont(s, 3, 128, 191)
                /\ IsCont(s, 4, 128, 191)
             THEN [r |-> (b - 240) * 262144 + (s[2] - 128) * 4096
                            + (s[3] - 128) * 64 + (s[4] - 128),
                   size |-> 4]
             ELSE bad
        ELSE bad

\* utf8.EncodeRune(p, r): the bytes written; an invalid rune is encoded as
\* RuneError
EncodeRune(r) ==
    LET enc3(x) == <<224 + (x \div 4096), 128 + ((x \div 64) % 64), 128 + (x % 64)>>
    IN  IF r >= 0 /\ r < RuneSelf THEN <<r>>
        ELSE IF r >= 0 /\ r <= 2047 THEN <<192 + (r \div 64), 128 + (r % 64)>>
        ELSE IF r < 0 \/ r > MaxRune \/ (r >= 55296 /\ r <= 57343)
        THEN enc3(RuneError)
        ELSE IF r <= 65535 THEN enc3(r)
        ELSE <<240 + (r \div 262144), 128 + ((r \div 4096) % 64),
               128 + ((r \div 64) % 64), 128 + (r % 64)>>

\* utf8.RuneLen(r): the width of the encoding, or -1 for an invalid rune
RuneLen(r) ==
    IF r < 0 THEN -1
    ELSE IF r < RuneSelf THEN 1
    ELSE IF r <= 2047 THEN 2
    ELSE IF r >= 55296 /\ r <= 57343 THEN -1
    ELSE IF r <= 65535 THEN 3
    ELSE IF r <= MaxRune THEN 4
    ELSE -1

(***************************************************************************)
(* The result of a call: the buffer afterwards, the count and the error it *)
(* returns ("nil", "EOF", "error", "ErrShortWrite", or "panic" when the    *)
(* call does not return), and the bytes it hands back.                     *)
(***************************************************************************)
Ret(f, n, err, data) == [f |-> f, n |-> n, err |-> err, data |-> data]

\* the zero value of the four structs
ZeroFio ==
    [arr |-> <<>>, len |-> 0, isnil |-> TRUE, off |-> 0, lastRead |-> opInvalid,
     i |-> 0, prevRune |-> 0, ManualReset |-> FALSE]

(***************************************************************************)
(* An io.Reader over a finite source: the source is the sequence of the    *)
(* chunks it still holds.  Read(p) with len(p) = room copies from the      *)
(* first chunk and returns nil, or returns (0, EOF) once nothing is left.  *)
(***************************************************************************)
Reader_Read(src, room) ==
    IF src = <<>> THEN [data |-> <<>>, err |-> "EOF", src |-> src]
    ELSE LET m == Min(room, Len(src[1]))
         IN  [data |-> SubSeq(src[1], 1, m), err |-> "nil",
              src |-> IF m = Len(src[1]) THEN Tail(src)
                      ELSE <<SubSeq(src[1], m + 1, Len(src[1]))>> \o Tail(src)]

(***************************************************************************)
(* mem.FakeIO  (src/mem/buffer.go)                                         *)
(***************************************************************************)
\* fio.buf[fio.off:]; the caller has checked off <= len
FakeIO_Bytes(f) == Slice(f, f.off, f.len)

FakeIO_empty(f) == f.len <= f.off

FakeIO_Len(f) == f.len - f.off

FakeIO_Size(f) == f.len

FakeIO_Reset(f) == [f EXCEPT !.len = 0, !.off = 0, !.lastRead = opInvalid]

FakeIO_Truncate(f, n) ==
    IF n = 0 THEN Ret(FakeIO_Reset(f), 0, "nil", <<>>)
    ELSE LET f0 == [f EXCEPT !.lastRead = opInvalid]
         IN  IF n < 0 \/ n > FakeIO_Len(f0) THEN Ret(f0, 0, "panic", <<>>)
             ELSE Ret([f0 EXCEPT !.len = f0.off + n], 0, "nil", <<>>)

FakeIO_tryGrowByReslice(f, n) ==
    IF n <= Cap(f) - f.len
    THEN [f |-> [f EXCEPT !.len = f.len + n], m |-> f.len, ok |-> TRUE]
    ELSE [f |-> f, m |-> 0, ok |-> FALSE]

\* grow returns the index where bytes should be written; it panics when
\* fio.buf[fio.off:] is out of range.  (The ErrTooLarge branch needs a
\* capacity near maxInt and is out of the model's range.)
FakeIO_grow(f, n) ==
    LET m == FakeIO_Len(f)
        f1 == IF m = 0 /\ f.off # 0 THEN FakeIO_Reset(f) ELSE f
        t == FakeIO_tryGrowByReslice(f1, n)
        c == Cap(f1)
        rest == Slice(f1, f1.off, f1.len)
    IN  IF t.ok THEN [f |-> t.f, m |-> t.m, panic |-> FALSE]
        ELSE IF f1.isnil /\ n <= smallBufferSize
        THEN [f |-> [f1 EXCEPT !.arr = Zeros(smallBufferSize), !.len = n,
                               !.isnil = FALSE],
              m |-> 0, panic |-> FALSE]
        ELSE IF f1.off > f1.len THEN [f |-> f1, m |-> 0, panic |-> TRUE]
        ELSE IF n <= (c \div 2) - m
        THEN [f |-> [f1 EXCEPT !.arr = CopyAt(f1.arr, 0, f1.len, rest),
                               !.off = 0, !.len = m + n],
              m |-> m, panic |-> FALSE]
        ELSE [f |-> [f1 EXCEPT !.arr = CopyAt(Zeros(2 * c + n), 0, 2 * c + n, rest),
                               !.off = 0, !.len = m + n, !.isnil = FALSE],
              m |-> m, panic |-> FALSE]

\* the shared body of Write, WriteString and WriteByte: reslice or grow by
\* Len(p), then copy(fio.buf[m:], p)
FakeIO_append(f, p) ==
    LET f0 == [f EXCEPT !.lastRead = opInvalid]
        t == FakeIO_tryGrowByReslice(f0, Len(p))
        g == IF t.ok THEN [f |-> t.f, m |-> t.m, panic |-> FALSE]
             ELSE FakeIO_grow(f0, Len(p))
    IN  IF g.panic THEN Ret(g.f, 0, "panic", <<>>)
        ELSE Ret([g.f EXCEPT !.arr = CopyAt(g.f.arr, g.m, g.f.len - g.m, p)],
                 CopyN(g.f.len - g.m, p), "nil", <<>>)

\* Grow(n): m := fio.grow(n); fio.buf = fio.buf[:m]
FakeIO_Grow(f, n) ==
    IF n < 0 THEN Ret(f, 0, "panic", <<>>)
    ELSE LET g == FakeIO_grow(f, n)
         IN  IF g.panic THEN Ret(g.f, 0, "panic", <<>>)
             ELSE Ret([g.f EXCEPT !.len = g.m], 0, "nil", <<>>)

FakeIO_Write(f, p) == FakeIO_append(f, p)

FakeIO_WriteString(f, s) == FakeIO_append(f, s)

\* WriteByte returns only an error; n is left 1 for the byte stored
FakeIO_WriteByte(f, c) ==
    LET w == FakeIO_append(f, <<c>>) IN Ret(w.f, 1, w.err, <<>>)

\* WriteRune keeping all UTFMax bytes of the scratch area
FakeIO_WriteRune_noCut(f, r) ==
    IF r >= 0 /\ r < RuneSelf THEN FakeIO_WriteByte(f, r)
    ELSE LET f0 == [f EXCEPT !.lastRead = opInvalid]
             g == FakeIO_grow(f0, UTFMax)
             e == EncodeRune(r)
         IN  IF g.panic THEN Ret(g.f, 0, "panic", <<>>)
             ELSE Ret([g.f EXCEPT !.arr = CopyAt(g.f.arr, g.m, UTFMax, e),
                                  !.len = g.m + UTFMax],
                      Len(e), "nil", <<>>)

\* the encoding is written into buf[m:m+UTFMax], then the length is cut back
\* to m+n
FakeIO_WriteRune(f, r) ==
    IF r >= 0 /\ r < RuneSelf THEN FakeIO_WriteByte(f, r)
    ELSE LET f0 == [f EXCEPT !.lastRead = opInvalid]
             t == FakeIO_tryGrowByReslice(f0, UTFMax)
             g == IF t.ok THEN [f |-> t.f, m |-> t.m, panic |-> FALSE]
                  ELSE FakeIO_grow(f0, UTFMax)
             e == EncodeRune(r)
         IN  IF g.panic THEN Ret(g.f, 0, "panic", <<>>)
             ELSE Ret([g.f EXCEPT !.arr = CopyAt(g.f.arr, g.m, UTFMax, e),
                                  !.len = g.m + Len(e)],
                      Len(e), "nil", <<>>)

\* Read advancing the cursor by len(p) instead of the number of bytes copied
FakeIO_Read_byLenP(f, k) ==
    IF f.off >= f.len THEN Ret(f, 0, "EOF", <<>>)
    ELSE LET n == Min(k, f.len - f.off)
         IN  Ret([f EXCEPT !.off = f.off + k,
                           !.lastRead = IF n > 0 THEN opRead ELSE opInvalid],
                 n, "nil", Slice(f, f.off, f.off + n))

\* Read with len(p) = k
FakeIO_Read(f, k) ==
    IF f.off >= f.len THEN Ret(f, 0, "EOF", <<>>)
    ELSE LET f0 == [f EXCEPT !.lastRead = opInvalid]
             n == Min(k, f0.len - f0.off)
         IN  IF FakeIO_empty(f0)
             THEN Ret(FakeIO_Reset(f0), 0, IF k = 0 THEN "nil" ELSE "EOF", <<>>)
             ELSE Ret([f0 EXCEPT !.off = f0.off + n,
                                 !.lastRead = IF n > 0 THEN opRead ELSE opInvalid],
                      n, "nil", Slice(f0, f0.off, f0.off + n))

FakeIO_ReadByte(f) ==
    IF FakeIO_empty(f) THEN Ret(FakeIO_Reset(f), 0, "EOF", <<>>)
    ELSE Ret([f EXCEPT !.off = f.off + 1, !.lastRead = opRead],
             1, "nil", <<f.arr[f.off + 1]>>)

\* data holds the bytes consumed; r is the rune returned
FakeIO_ReadRune(f) ==
    IF FakeIO_empty(f)
    THEN [f |-> FakeIO_Reset(f), n |-> 0, err |-> "EOF", data |-> <<>>, r |-> 0]
    ELSE LET c == f.arr[f.off + 1]
             d == DecodeRune(FakeIO_Bytes(f))
         IN  IF c < RuneSelf
             THEN [f |-> [f EXCEPT !.off = f.off + 1, !.lastRead = opReadRune1],
                   n |-> 1, err |-> "nil", data |-> <<c>>, r |-> c]
             ELSE [f |-> [f EXCEPT !.off = f.off + d.size, !.lastRead = d.size],
                   n |-> d.size, err |-> "nil",
                   data |-> Slice(f, f.off, f.off + d.size), r |-> d.r]

FakeIO_UnreadRune(f) ==
    IF f.lastRead <= opInvalid THEN Ret(f, 0, "error", <<>>)
    ELSE Ret([f EXCEPT !.off = IF f.off >= f.lastRead THEN f.off - f.lastRead
                                ELSE f.off,
                       !.lastRead = opInvalid],
             0, "nil", <<>>)

FakeIO_UnreadByte(f) ==
    IF f.lastRead = opInvalid THEN Ret(f, 0, "error", <<>>)
    ELSE Ret([f EXCEPT !.lastRead = opInvalid,
                       !.off = IF f.off > 0 THEN f.off - 1 ELSE f.off],
             0, "nil", <<>>)

\* readSlice that never sets err = io.EOF
FakeIO_readSlice_noEOF(f, delim) ==
    IF f.off > f.len THEN Ret(f, 0, "panic", <<>>)
    ELSE LET i == IndexByte(FakeIO_Bytes(f), delim)
             end == IF i < 0 THEN f.len ELSE f.off + i + 1
         IN  Ret([f EXCEPT !.off = end, !.lastRead = opRead],
                 end - f.off, "nil", Slice(f, f.off, end))

\* readSlice panics on fio.buf[fio.off:] when the cursor is past the end
FakeIO_readSlice(f, delim) ==
    IF f.off > f.len THEN Ret(f, 0, "panic", <<>>)
    ELSE LET i == IndexByte(FakeIO_Bytes(f), delim)
             end == IF i < 0 THEN f.len ELSE f.off + i + 1
         IN  Ret([f EXCEPT !.off = end, !.lastRead = opRead],
                 end - f.off, IF i < 0 THEN "EOF" ELSE "nil", Slice(f, f.off, end))

FakeIO_ReadBytes(f, delim) ==
    LET s == FakeIO_readSlice(f, delim) IN Ret(s.f, s.n, s.err, CopyOf(s.data))

FakeIO_ReadString(f, delim) ==
    LET s == FakeIO_readSlice(f, delim) IN Ret(s.f, s.n, s.err, s.data)

\* n is the position returned
FakeIO_Seek(f, offset, whence) ==
    LET f0 == [f EXCEPT !.lastRead = opRead]
        abs == IF whence = SeekStart THEN offset
               ELSE IF whence = SeekCurrent THEN f0.off + offset
               ELSE f0.len + offset
    IN  IF whence \notin {SeekStart, SeekCurrent, SeekEnd} THEN Ret(f0, 0, "error", <<>>)
        ELSE IF abs < 0 THEN Ret(f0, 0, "error", <<>>)
        ELSE Ret([f0 EXCEPT !.off = abs], abs, "nil", <<>>)

\* WriteAt panics on fio.buf[pos:] when pos is negative
FakeIO_WriteAt(f, p, pos) ==
    LET expLen == pos + Len(p)
        f1 == IF f.len < expLen
              THEN IF Cap(f) < expLen
                   THEN [f EXCEPT !.arr = CopyAt(Zeros(expLen), 0, expLen,
                                                 Slice(f, 0, f.len)),
                                  !.len = expLen, !.isnil = FALSE]
                   ELSE [f EXCEPT !.len = expLen]
              ELSE f
    IN  IF pos < 0 \/ pos > f1.len THEN Ret(f1, 0, "panic", <<>>)
        ELSE Ret([f1 EXCEPT !.arr = CopyAt(f1.arr, pos, f1.len - pos, p)],
                 Len(p), "nil", <<>>)

\* ReadAt stopping at an offset past the stored length only
FakeIO_ReadAt_pastEnd(f, k, off) ==
    IF off < 0 THEN Ret(f, 0, "error", <<>>)
    ELSE IF off > f.len THEN Ret(f, 0, "EOF", <<>>)
    ELSE LET n == Min(k, f.len - off)
         IN  Ret(f, n, IF n < k THEN "EOF" ELSE "nil", Slice(f, off, off + n))

\* ReadAt with len(b) = k
FakeIO_ReadAt(f, k, off) ==
    IF off < 0 THEN Ret(f, 0, "error", <<>>)
    ELSE IF off >= f.len THEN Ret(f, 0, "EOF", <<>>)
    ELSE LET n == Min(k, f.len - off)
         IN  Ret(f, n, IF n < k THEN "EOF" ELSE "nil", Slice(f, off, off + n))

\* the loop of ReadFrom: grow by MinRead, read into buf[i:cap], until EOF
RECURSIVE FakeIO_readFromLoop(_, _, _)
FakeIO_readFromLoop(f, src, n) ==
    LET g == FakeIO_grow(f, MinRead)
        rd == Reader_Read(src, Cap(g.f) - g.m)
        m == Len(rd.data)
        f1 == [g.f EXCEPT !.arr = CopyAt(g.f.arr, g.m, m, rd.data),
                          !.len = g.m + m]
    IN  IF g.panic THEN Ret(g.f, n, "panic", <<>>)
        ELSE IF rd.err = "EOF" THEN Ret(f1, n + m, "nil", <<>>)
        ELSE FakeIO_readFromLoop(f1, rd.src, n + m)

FakeIO_ReadFrom(f, src) ==
    FakeIO_readFromLoop([f EXCEPT !.lastRead = opInvalid], src, 0)

\* Next(n): the next min(n, Len()) unread bytes; the slice expression
\* fio.buf[fio.off : fio.off+n] panics when n ends up negative
FakeIO_Next(f, n) ==
    LET f0 == [f EXCEPT !.lastRead = opInvalid]
        m == FakeIO_Len(f0)
        k == IF n > m THEN m ELSE n
    IN  IF k < 0 THEN Ret(f0, 0, "panic", <<>>)
        ELSE Ret([f0 EXCEPT !.off = f0.off + k,
                            !.lastRead = IF k > 0 THEN opRead ELSE opInvalid],
                 k, "nil", Slice(f0, f0.off, f0.off + k))

\* WriteTo with a sink that accepts at most `room` bytes; data holds the bytes
\* handed to the sink
FakeIO_WriteTo(f, room) ==
    LET f0 == [f EXCEPT !.lastRead = opInvalid]
        nBytes == FakeIO_Len(f0)
        m == Min(room, nBytes)
        f1 == [f0 EXCEPT !.off = f0.off + m]
    IN  IF nBytes > 0
        THEN IF m # nBytes THEN Ret(f1, m, "ErrShortWrite", Slice(f0, f0.off, f0.off + m))
             ELSE Ret(FakeIO_Reset(f1), m, "nil", Slice(f0, f0.off, f0.off + m))
        ELSE Ret(FakeIO_Reset(f0), 0, "nil", <<>>)

(***************************************************************************)
(* mem.SyncFakeIO  (src/mem/buffer_sync.go).  Each operator is the body a  *)
(* public method runs while it holds fio.m.                                *)
(***************************************************************************)
\* fio.buf[fio.off:]; the caller has checked off <= len
Sync_Bytes(f) == Slice(f, f.off, f.len)

Sync_empty(f) == f.len <= f.off

Sync_len(f) == f.len - f.off

Sync_Size(f) == f.len

Sync_reset(f) == [f EXCEPT !.len = 0, !.off = 0, !.lastRead = opInvalid]

Sync_Truncate(f, n) ==
    IF n = 0 THEN Ret(Sync_reset(f), 0, "nil", <<>>)
    ELSE LET f0 == [f EXCEPT !.lastRead = opInvalid]
         IN  IF n < 0 \/ n > Sync_len(f0) THEN Ret(f0, 0, "panic", <<>>)
             ELSE Ret([f0 EXCEPT !.len = f0.off + n], 0, "nil", <<>>)

\* the body of tryGrowByReslice once l := len(fio.buf) has been read
Sync_tryGrowByResliceAt(f, l, n) ==
    IF n <= Cap(f) - l
    THEN [f |-> [f EXCEPT !.len = l + n], m |-> l, ok |-> TRUE]
    ELSE [f |-> f, m |-> 0, ok |-> FALSE]

Sync_tryGrowByReslice(f, n) == Sync_tryGrowByResliceAt(f, f.len, n)

\* grow returns the index where bytes should be written; it panics when
\* fio.buf[fio.off:] is out of range.  (The ErrTooLarge branch needs a
\* capacity near maxInt and is out of the model's range.)
Sync_grow(f, n) ==
    LET m == Sync_len(f)
        f1 == IF m = 0 /\ f.off # 0 /\ ~f.ManualReset THEN Sync_reset(f) ELSE f
        t == Sync_tryGrowByReslice(f1, n)
        c == Cap(f1)
        rest == Slice(f1, f1.off, f1.len)
    IN  IF t.ok THEN [f |-> t.f, m |-> t.m, panic |-> FALSE]
        ELSE IF f1.isnil /\ n <= smallBufferSize
        THEN [f |-> [f1 EXCEPT !.arr = Zeros(smallBufferSize), !.len = n,
                               !.isnil = FALSE],
              m |-> 0, panic |-> FALSE]
        ELSE IF f1.off > f1.len THEN [f |-> f1, m |-> 0, panic |-> TRUE]
        ELSE IF n <= (c \div 2) - m
        THEN [f |-> [f1 EXCEPT !.arr = CopyAt(f1.arr, 0, f1.len, rest),
                               !.off = 0, !.len = m + n],
              m |-> m, panic |-> FALSE]
        ELSE [f |-> [f1 EXCEPT !.arr = CopyAt(Zeros(2 * c + n), 0, 2 * c + n, rest),
                               !.off = 0, !.len = m + n, !.isnil = FALSE],
              m |-> m, panic |-> FALSE]

\* Grow(n): m := fio.grow(n); fio.buf = fio.buf[:m]
Sync_Grow(f, n) ==
    IF n < 0 THEN Ret(f, 0, "panic", <<>>)
    ELSE LET g == Sync_grow(f, n)
         IN  IF g.panic THEN Ret(g.f, 0, "panic", <<>>)
             ELSE Ret([g.f EXCEPT !.len = g.m], 0, "nil", <<>>)

\* the shared body of Write, WriteString and WriteByte: reslice or grow by
\* Len(p), then copy(fio.buf[m:], p)
Sync_append(f, p) ==
    LET f0 == [f EXCEPT !.lastRead = opInvalid]
        t == Sync_tryGrowByReslice(f0, Len(p))
        g == IF t.ok THEN [f |-> t.f, m |-> t.m, panic |-> FALSE]
             ELSE Sync_grow(f0, Len(p))
    IN  IF g.panic THEN Ret(g.f, 0, "panic", <<>>)
        ELSE Ret([g.f EXCEPT !.arr = CopyAt(g.f.arr, g.m, g.f.len - g.m, p)],
                 CopyN(g.f.len - g.m, p), "nil", <<>>)

Sync_Write(f, p) == Sync_append(f, p)

Sync_WriteString(f, s) == Sync_append(f, s)

\* WriteByte returns only an error; n is left 1 for the byte stored
Sync_WriteByte(f, c) ==
    LET w == Sync_append(f, <<c>>) IN Ret(w.f, 1, w.err, <<>>)

\* the encoding is written into buf[m:m+UTFMax], then the length is cut back
\* to m+n
Sync_WriteRune(f, r) ==
    IF r >= 0 /\ r < RuneSelf THEN Sync_WriteByte(f, r)
    ELSE LET f0 == [f EXCEPT !.lastRead = opInvalid]
             t == Sync_tryGrowByReslice(f0, UTFMax)
             g == IF t.ok THEN [f |-> t.f, m |-> t.m, panic |-> FALSE]
                  ELSE Sync_grow(f0, UTFMax)
             e == EncodeRune(r)
         IN  IF g.panic THEN Ret(g.f, 0, "panic", <<>>)
             ELSE Ret([g.f EXCEPT !.arr = CopyAt(g.f.arr, g.m, UTFMax, e),
                                  !.len = g.m + Len(e)],
                      Len(e), "nil", <<>>)

\* Read with len(p) = k
Sync_Read(f, k) ==
    IF f.off >= f.len THEN Ret(f, 0, "EOF", <<>>)
    ELSE LET f0 == [f EXCEPT !.lastRead = opInvalid]
             n == Min(k, f0.len - f0.off)
         IN  IF Sync_empty(f0)
             THEN Ret(IF f0.ManualReset THEN f0 ELSE Sync_reset(f0), 0,
                      IF k = 0 THEN "nil" ELSE "EOF", <<>>)
             ELSE Ret([f0 EXCEPT !.off = f0.off + n,
                                 !.lastRead = IF n > 0 THEN opRead ELSE opInvalid],
                      n, "nil", Slice(f0, f0.off, f0.off + n))

\* ReadByte resetting the drained buffer whatever ManualReset says
Sync_ReadByte_alwaysReset(f) ==
    IF Sync_empty(f) THEN Ret(Sync_reset(f), 0, "EOF", <<>>)
    ELSE Ret([f EXCEPT !.off = f.off + 1, !.lastRead = opRead],
             1, "nil", <<f.arr[f.off + 1]>>)

Sync_ReadByte(f) ==
    IF Sync_empty(f)
    THEN Ret(IF f.ManualReset THEN f ELSE Sync_reset(f), 0, "EOF", <<>>)
    ELSE Ret([f EXCEPT !.off = f.off + 1, !.lastRead = opRead],
             1, "nil", <<f.arr[f.off + 1]>>)

\* data holds the bytes consumed; r is the rune returned
Sync_ReadRune(f) ==
    IF Sync_empty(f)
    THEN [f |-> IF f.ManualReset THEN f ELSE Sync_reset(f),
          n |-> 0, err |-> "EOF", data |-> <<>>, r |-> 0]
    ELSE LET c == f.arr[f.off + 1]
             d == DecodeRune(Sync_Bytes(f))
         IN  IF c < RuneSelf
             THEN [f |-> [f EXCEPT !.off = f.off + 1, !.lastRead = opReadRune1],
                   n |-> 1, err |-> "nil", data |-> <<c>>, r |-> c]
             ELSE [f |-> [f EXCEPT !.off = f.off + d.size, !.lastRead = d.size],
                   n |-> d.size, err |-> "nil",
                   data |-> Slice(f, f.off, f.off + d.size), r |-> d.r]

Sync_UnreadRune(f) ==
    IF f.lastRead <= opInvalid THEN Ret(f, 0, "error", <<>>)
    ELSE Ret([f EXCEPT !.off = IF f.off >= f.lastRead THEN f.off - f.lastRead
                                ELSE f.off,
                       !.lastRead = opInvalid],
             0, "nil", <<>>)

Sync_UnreadByte(f) ==
    IF f.lastRead = opInvalid THEN Ret(f, 0, "error", <<>>)
    ELSE Ret([f EXCEPT !.lastRead = opInvalid,
                       !.off = IF f.off > 0 THEN f.off - 1 ELSE f.off],
             0, "nil", <<>>)

\* readSlice panics on fio.buf[fio.off:] when the cursor is past the end
Sync_readSlice(f, delim) ==
    IF f.off > f.len THEN Ret(f, 0, "panic", <<>>)
    ELSE LET i == IndexByte(Sync_Bytes(f), delim)
             end == IF i < 0 THEN f.len ELSE f.off + i + 1
         IN  Ret([f EXCEPT !.off = end, !.lastRead = opRead],
                 end - f.off, IF i < 0 THEN "EOF" ELSE "nil", Slice(f, f.off, end))

Sync_ReadBytes(f, delim) ==
    LET s == Sync_readSlice(f, delim) IN Ret(s.f, s.n, s.err, CopyOf(s.data))

Sync_ReadString(f, delim) ==
    LET s == Sync_readSlice(f, delim) IN Ret(s.f, s.n, s.err, s.data)

\* n is the position returned
Sync_Seek(f, offset, whence) ==
    LET f0 == [f EXCEPT !.lastRead = opRead]
        abs == IF whence = SeekStart THEN offset
               ELSE IF whence = SeekCurrent THEN f0.off + offset
               ELSE f0.len + offset
    IN  IF whence \notin {SeekStart, SeekCurrent, SeekEnd} THEN Ret(f0, 0, "error", <<>>)
        ELSE IF abs < 0 THEN Ret(f0, 0, "error", <<>>)
        ELSE Ret([f0 EXCEPT !.off = abs], abs, "nil", <<>>)

\* WriteAt panics on fio.buf[pos:] when pos is negative
Sync_WriteAt(f, p, pos) ==
    LET expLen == pos + Len(p)
        f1 == IF f.len < expLen
              THEN IF Cap(f) < expLen
                   THEN [f EXCEPT !.arr = CopyAt(Zeros(expLen), 0, expLen,
                                                 Slice(f, 0, f.len)),
                                  !.len = expLen, !.isnil = FALSE]
                   ELSE [f EXCEPT !.len = expLen]
              ELSE f
    IN  IF pos < 0 \/ pos > f1.len THEN Ret(f1, 0, "panic", <<>>)
        ELSE Ret([f1 EXCEPT !.arr = CopyAt(f1.arr, pos, f1.len - pos, p)],
                 Len(p), "nil", <<>>)

\* ReadAt with len(b) = k
Sync_ReadAt(f, k, off) ==
    IF off < 0 THEN Ret(f, 0, "error", <<>>)
    ELSE IF off >= f.len THEN Ret(f, 0, "EOF", <<>>)
    ELSE LET n == Min(k, f.len - off)
         IN  Ret(f, n, IF n < k THEN "EOF" ELSE "nil", Slice(f, off, off + n))

\* the loop of ReadFrom: grow by MinRead, read into buf[i:cap], until EOF
RECURSIVE Sync_readFromLoop(_, _, _)
Sync_readFromLoop(f, src, n) ==
    LET g == Sync_grow(f, MinRead)
        rd == Reader_Read(src, Cap(g.f) - g.m)
        m == Len(rd.data)
        f1 == [g.f EXCEPT !.arr = CopyAt(g.f.arr, g.m, m, rd.data),
                          !.len = g.m + m]
    IN  IF g.panic THEN Ret(g.f, n, "panic", <<>>)
        ELSE IF rd.err = "EOF" THEN Ret(f1, n + m, "nil", <<>>)
        ELSE Sync_readFromLoop(f1, rd.src, n + m)

Sync_ReadFrom(f, src) ==
    Sync_readFromLoop([f EXCEPT !.lastRead = opInvalid], src, 0)

\* WriteTo with a sink that accepts at most `room` bytes; data holds the bytes
\* handed to the sink
\* Next under fio.m.Lock() with a deferred Unlock
Sync_Next(f, n) ==
    LET f0 == [f EXCEPT !.lastRead = opInvalid]
        m == Sync_len(f0)
        k == IF n > m THEN m ELSE n
    IN  IF k < 0 THEN Ret(f0, 0, "panic", <<>>)
        ELSE Ret([f0 EXCEPT !.off = f0.off + k,
                            !.lastRead = IF k > 0 THEN opRead ELSE opInvalid],
                 k, "nil", Slice(f0, f0.off, f0.off + k))

Sync_WriteTo(f, room) ==
    LET f0 == [f EXCEPT !.lastRead = opInvalid]
        nBytes == Sync_len(f0)
        m == Min(room, nBytes)
        f1 == [f0 EXCEPT !.off = f0.off + m]
    IN  IF nBytes > 0
        THEN IF m # nBytes THEN Ret(f1, m, "ErrShortWrite", Slice(f0, f0.off, f0.off + m))
             ELSE Ret(IF f1.ManualReset THEN f1 ELSE Sync_reset(f1), m, "nil",
                      Slice(f0, f0.off, f0.off + m))
        ELSE Ret(IF f0.ManualReset THEN f0 ELSE Sync_reset(f0), 0, "nil", <<>>)

\* ResetTo(b): *fio = SyncFakeIO{buf: b, off: 0, lastRead: opRead}; the
\* assignment also replaces fio.m by an unlocked mutex and clears ManualReset
Sync_ResetTo(f, b) ==
    [ZeroFio EXCEPT !.arr = b, !.len = Len(b), !.isnil = FALSE, !.lastRead = opRead]

Sync_Reset(f) == Sync_reset(f)

Sync_SeekStart(f) == [f EXCEPT !.lastRead = opRead, !.off = 0]

Sync_SeekEnd(f) == [f EXCEPT !.lastRead = opRead, !.off = f.len]

Sync_Close(f) == Ret(Sync_Reset(f), 0, "nil", <<>>)

(***************************************************************************)
(* mem.SingleFakeIO  (src/unnamed/part_002): off is the write index, i the *)
(* read index, prevRune the index of the rune last read (or < 0).          *)
(***************************************************************************)
NewSingleFakeIO(size) ==
    [ZeroFio EXCEPT !.arr = Zeros(IF size <= 0 THEN smallBufferSize ELSE size),
                    !.isnil = FALSE]

Single_resetAll(f) == [f EXCEPT !.len = 0, !.off = 0, !.i = 0, !.prevRune = -1]

\* Truncate panics on the range check and on fio.buf[:fio.off+n] beyond cap
Single_Truncate(f, n) ==
    IF n = 0 THEN Ret(Single_resetAll(f), 0, "nil", <<>>)
    ELSE IF n < 0 \/ n > f.len THEN Ret(f, 0, "panic", <<>>)
    ELSE IF f.off + n > Cap(f) THEN Ret(f, 0, "panic", <<>>)
    ELSE Ret([f EXCEPT !.len = f.off + n], 0, "nil", <<>>)

Single_Size(f) == f.len

Single_Len(f) == f.len

Single_Bytes(f) == Slice(f, 0, f.len)

Single_Read(f, k) ==
    IF f.i >= f.len THEN Ret(f, 0, "EOF", <<>>)
    ELSE LET n == Min(k, f.len - f.i)
         IN  Ret([f EXCEPT !.prevRune = -1, !.i = f.i + n], n, "nil",
                 Slice(f, f.i, f.i + n))

Single_ReadByte(f) ==
    LET f0 == [f EXCEPT !.prevRune = -1]
    IN  IF f0.i >= f0.len THEN Ret(f0, 0, "EOF", <<>>)
        ELSE Ret([f0 EXCEPT !.i = f0.i + 1], 1, "nil", <<f0.arr[f0.i + 1]>>)

\* UnreadByte without fio.i--
Single_UnreadByte_noStep(f) ==
    IF f.i <= 0 THEN Ret(f, 0, "error", <<>>)
    ELSE Ret([f EXCEPT !.prevRune = -1], 0, "nil", <<>>)

Single_UnreadByte(f) ==
    IF f.i <= 0 THEN Ret(f, 0, "error", <<>>)
    ELSE Ret([f EXCEPT !.prevRune = -1, !.i = f.i - 1], 0, "nil", <<>>)

Single_ReadRune(f) ==
    IF f.i >= f.len
    THEN [f |-> [f EXCEPT !.prevRune = -1], n |-> 0, err |-> "EOF",
          data |-> <<>>, r |-> 0]
    ELSE LET f0 == [f EXCEPT !.prevRune = f.i]
             c == f0.arr[f0.i + 1]
             d == DecodeRune(Slice(f0, f0.i, f0.len))
         IN  IF c < RuneSelf
             THEN [f |-> [f0 EXCEPT !.i = f0.i + 1], n |-> 1, err |-> "nil",
                   data |-> <<c>>, r |-> c]
             ELSE [f |-> [f0 EXCEPT !.i = f0.i + d.size], n |-> d.size,
                   err |-> "nil", data |-> Slice(f0, f0.i, f0.i + d.size),
                   r |-> d.r]

Single_UnreadRune(f) ==
    IF f.i <= 0 THEN Ret(f, 0, "error", <<>>)
    ELSE IF f.prevRune < 0 THEN Ret(f, 0, "error", <<>>)
    ELSE Ret([f EXCEPT !.i = f.prevRune, !.prevRune = -1], 0, "nil", <<>>)

Single_Write(f, p) ==
    LET pLen == Len(p)
        bufLen == f.len
        expLen == bufLen + pLen
        nextCap == IF smallBufferSize < pLen THEN pLen ELSE smallBufferSize
        f1 == IF Cap(f) < expLen
              THEN [f EXCEPT !.arr = CopyAt(Zeros(bufLen + nextCap), 0, bufLen,
                                            Slice(f, 0, bufLen)),
                             !.isnil = FALSE]
              ELSE f
        f2 == IF bufLen < expLen THEN [f1 EXCEPT !.len = f1.off + pLen] ELSE f
    IN  IF f2.off > f2.len THEN Ret(f2, 0, "panic", <<>>)
        ELSE Ret([f2 EXCEPT !.arr = CopyAt(f2.arr, f2.off, f2.len - f2.off, p),
                            !.off = f2.off + pLen],
                 pLen, "nil", <<>>)

\* WriteAt panics on fio.buf[pos:] when pos is negative
Single_WriteAt(f, p, pos) ==
    LET expLen == pos + Len(p)
        f1 == IF f.len < expLen
              THEN IF Cap(f) < expLen
                   THEN [f EXCEPT !.arr = CopyAt(Zeros(expLen), 0, expLen,
                                                 Slice(f, 0, f.len)),
                                  !.len = expLen, !.isnil = FALSE]
                   ELSE [f EXCEPT !.len = expLen]
              ELSE f
    IN  IF pos < 0 \/ pos > f1.len THEN Ret(f1, 0, "panic", <<>>)
        ELSE Ret([f1 EXCEPT !.arr = CopyAt(f1.arr, pos, f1.len - pos, p)],
                 Len(p), "nil", <<>>)

Single_WriteByte(f, c) == Single_Write(f, <<c>>)

Single_WriteString(f, s) == Single_Write(f, s)

\* make([]byte, utf8.RuneLen(r)) panics for an invalid rune
Single_WriteRune(f, r) ==
    IF r >= 0 /\ r < RuneSelf THEN Single_Write(f, <<r>>)
    ELSE IF RuneLen(r) < 0 THEN Ret(f, 0, "panic", <<>>)
    ELSE Single_Write(f, EncodeRune(r))

\* readSlice panics on fio.buf[fio.i:] when the read index is past the end
Single_readSlice(f, delim) ==
    IF f.i > f.len THEN Ret(f, 0, "panic", <<>>)
    ELSE LET rest == Slice(f, f.i, f.len)
             i == IndexByte(rest, delim)
             end == IF i < 0 THEN f.len ELSE f.i + i + 1
             err == IF i < 0 /\ (Len(rest) = 0 \/ rest[1] = delim)
                    THEN "EOF" ELSE "nil"
         IN  Ret([f EXCEPT !.i = end], end - f.i, err, Slice(f, f.i, end))

Single_ReadBytes(f, delim) == Single_readSlice(f, delim)

Single_ReadString(f, delim) == Single_readSlice(f, delim)

\* ReadAt moving the read index as Read does
Single_ReadAt_moving(f, k, off) ==
    IF off < 0 THEN Ret(f, 0, "error", <<>>)
    ELSE IF off >= f.len THEN Ret(f, 0, "EOF", <<>>)
    ELSE LET n == Min(k, f.len - off)
         IN  Ret([f EXCEPT !.i = off + n], n, IF n < k THEN "EOF" ELSE "nil",
                 Slice(f, off, off + n))

\* ReadAt with len(b) = k
Single_ReadAt(f, k, off) ==
    IF off < 0 THEN Ret(f, 0, "error", <<>>)
    ELSE IF off >= f.len THEN Ret(f, 0, "EOF", <<>>)
    ELSE LET n == Min(k, f.len - off)
         IN  Ret(f, n, IF n < k THEN "EOF" ELSE "nil", Slice(f, off, off + n))

Single_Seek(f, offset, whence) ==
    LET f0 == [f EXCEPT !.prevRune = -1]
        abs == IF whence = SeekStart THEN offset
               ELSE IF whence = SeekCurrent THEN f0.i + offset
               ELSE f0.len + offset
    IN  IF whence \notin {SeekStart, SeekCurrent, SeekEnd} THEN Ret(f0, 0, "error", <<>>)
        ELSE IF abs < 0 THEN Ret(f0, 0, "error", <<>>)
        ELSE Ret([f0 EXCEPT !.i = abs], abs, "nil", <<>>)

\* copy(fio.buf, b) finds a destination of length 0
Single_Reset(f, b) ==
    LET f0 == Single_resetAll(f)
    IN  [f0 EXCEPT !.arr = CopyAt(f0.arr, 0, f0.len, b)]

\* WriteTo hands the whole of fio.buf to a sink that accepts at most `room`
\* bytes; n is set only when the sink reports no error
Single_WriteTo(f, room) ==
    LET m == Min(room, f.len)
    IN  IF m < f.len THEN Ret(f, 0, "ErrShortWrite", Slice(f, 0, m))
        ELSE Ret(f, m, "nil", Slice(f, 0, m))

\* ReadFrom resets, then calls r.Read(fio.buf) once with the emptied slice;
\* n is set only when the reader reports no error, and the error is returned
\* as it is
Single_ReadFrom(f, src) ==
    LET f0 == Single_resetAll(f)
        rd == Reader_Read(src, f0.len)
        m == Len(rd.data)
    IN  Ret([f0 EXCEPT !.arr = CopyAt(f0.arr, 0, m, rd.data)],
            IF rd.err = "nil" THEN m ELSE 0, rd.err, <<>>)

\* Close returning nil without resetting
Single_Close_noReset(f) == Ret(f, 0, "nil", <<>>)

Single_Close(f) == Ret(Single_resetAll(f), 0, "nil", <<>>)

(***************************************************************************)
(* men_buffer.FakeIO  (src/men_buffer/buffer.go): the same fields as       *)
(* SingleFakeIO, each method run under fio.m.                              *)
(***************************************************************************)
NewBufferIO(size) ==
    [ZeroFio EXCEPT !.arr = Zeros(IF size <= 0 THEN smallBufferSize ELSE size),
                    !.isnil = FALSE]

Men_Reset(f) == [f EXCEPT !.len = 0, !.off = 0, !.i = 0, !.prevRune = -1]

\* Truncate panics on the range check and on fio.buf[:fio.off+n] beyond cap
Men_Truncate(f, n) ==
    IF n = 0 THEN Ret(Men_Reset(f), 0, "nil", <<>>)
    ELSE IF n < 0 \/ n > f.len THEN Ret(f, 0, "panic", <<>>)
    ELSE IF f.off + n > Cap(f) THEN Ret(f, 0, "panic", <<>>)
    ELSE Ret([f EXCEPT !.len = f.off + n], 0, "nil", <<>>)

Men_Size(f) == f.len

Men_Len(f) == f.len

Men_Bytes(f) == Slice(f, 0, f.len)

Men_Read(f, k) ==
    IF f.i >= f.len THEN Ret(f, 0, "EOF", <<>>)
    ELSE LET n == Min(k, f.len - f.i)
         IN  Ret([f EXCEPT !.prevRune = -1, !.i = f.i + n], n, "nil",
                 Slice(f, f.i, f.i + n))

Men_ReadByte(f) ==
    LET f0 == [f EXCEPT !.prevRune = -1]
    IN  IF f0.i >= f0.len THEN Ret(f0, 0, "EOF", <<>>)
        ELSE Ret([f0 EXCEPT !.i = f0.i + 1], 1, "nil", <<f0.arr[f0.i + 1]>>)

Men_UnreadByte(f) ==
    IF f.i <= 0 THEN Ret(f, 0, "error", <<>>)
    ELSE Ret([f EXCEPT !.prevRune = -1, !.i = f.i - 1], 0, "nil", <<>>)

Men_ReadRune(f) ==
    IF f.i >= f.len
    THEN [f |-> [f EXCEPT !.prevRune = -1], n |-> 0, err |-> "EOF",
          data |-> <<>>, r |-> 0]
    ELSE LET f0 == [f EXCEPT !.prevRune = f.i]
             c == f0.arr[f0.i + 1]
             d == DecodeRune(Slice(f0, f0.i, f0.len))
         IN  IF c < RuneSelf
             THEN [f |-> [f0 EXCEPT !.i = f0.i + 1], n |-> 1, err |-> "nil",
                   data |-> <<c>>, r |-> c]
             ELSE [f |-> [f0 EXCEPT !.i = f0.i + d.size], n |-> d.size,
                   err |-> "nil", data |-> Slice(f0, f0.i, f0.i + d.size),
                   r |-> d.r]

Men_UnreadRune(f) ==
    IF f.i <= 0 THEN Ret(f, 0, "error", <<>>)
    ELSE IF f.prevRune < 0 THEN Ret(f, 0, "error", <<>>)
    ELSE Ret([f EXCEPT !.i = f.prevRune, !.prevRune = -1], 0, "nil", <<>>)

\* Write without copy(newBuf, fio.buf) after the reallocation
Men_Write_noCopy(f, p) ==
    LET pLen == Len(p)
        expLen == f.len + pLen
        nextCap == IF smallBufferSize < pLen THEN pLen ELSE smallBufferSize
        f1 == IF Cap(f) < expLen
              THEN [f EXCEPT !.arr = Zeros(f.len + nextCap), !.isnil = FALSE]
              ELSE f
        f2 == [f1 EXCEPT !.len = f1.off + pLen]
    IN  Ret([f2 EXCEPT !.arr = CopyAt(f2.arr, f2.off, f2.len - f2.off, p),
                       !.off = f2.off + pLen],
            pLen, "nil", <<>>)

Men_Write(f, p) ==
    LET pLen == Len(p)
        bufLen == f.len
        expLen == bufLen + pLen
        nextCap == IF smallBufferSize < pLen THEN pLen ELSE smallBufferSize
        f1 == IF Cap(f) < expLen
              THEN [f EXCEPT !.arr = CopyAt(Zeros(bufLen + nextCap), 0, bufLen,
                                            Slice(f, 0, bufLen)),
                             !.isnil = FALSE]
              ELSE f
        f2 == IF bufLen < expLen THEN [f1 EXCEPT !.len = f1.off + pLen] ELSE f
    IN  IF f2.off > f2.len THEN Ret(f2, 0, "panic", <<>>)
        ELSE Ret([f2 EXCEPT !.arr = CopyAt(f2.arr, f2.off, f2.len - f2.off, p),
                            !.off = f2.off + pLen],
                 pLen, "nil", <<>>)

\* WriteAt without copy(newBuf, fio.buf) after the reallocation
Men_WriteAt_noCopy(f, p, pos) ==
    LET expLen == pos + Len(p)
        f1 == IF f.len < expLen
              THEN IF Cap(f) < expLen
                   THEN [f EXCEPT !.arr = Zeros(expLen), !.len = expLen, !.isnil = FALSE]
                   ELSE [f EXCEPT !.len = expLen]
              ELSE f
    IN  IF pos < 0 \/ pos > f1.len THEN Ret(f1, 0, "panic", <<>>)
        ELSE Ret([f1 EXCEPT !.arr = CopyAt(f1.arr, pos, f1.len - pos, p)],
                 Len(p), "nil", <<>>)

\* WriteAt panics on fio.buf[pos:] when pos is negative
Men_WriteAt(f, p, pos) ==
    LET expLen == pos + Len(p)
        f1 == IF f.len < expLen
              THEN IF Cap(f) < expLen
                   THEN [f EXCEPT !.arr = CopyAt(Zeros(expLen), 0, expLen,
                                                 Slice(f, 0, f.len)),
                                  !.len = expLen, !.isnil = FALSE]
                   ELSE [f EXCEPT !.len = expLen]
              ELSE f
    IN  IF pos < 0 \/ pos > f1.len THEN Ret(f1, 0, "panic", <<>>)
        ELSE Ret([f1 EXCEPT !.arr = CopyAt(f1.arr, pos, f1.len - pos, p)],
                 Len(p), "nil", <<>>)

Men_WriteByte(f, c) == Men_Write(f, <<c>>)

Men_WriteString(f, s) == Men_Write(f, s)

\* make([]byte, utf8.RuneLen(r)) panics for an invalid rune
Men_WriteRune(f, r) ==
    IF r >= 0 /\ r < RuneSelf THEN Men_Write(f, <<r>>)
    ELSE IF RuneLen(r) < 0 THEN Ret(f, 0, "panic", <<>>)
    ELSE Men_Write(f, EncodeRune(r))

\* readSlice reporting io.EOF whenever the delimiter is not found
Men_readSlice_eofNoDelim(f, delim) ==
    IF f.i > f.len THEN Ret(f, 0, "panic", <<>>)
    ELSE LET rest == Slice(f, f.i, f.len)
             i == IndexByte(rest, delim)
             end == IF i < 0 THEN f.len ELSE f.i + i + 1
         IN  Ret([f EXCEPT !.i = end], end - f.i, IF i < 0 THEN "EOF" ELSE "nil",
                 Slice(f, f.i, end))

\* readSlice panics on fio.buf[fio.i:] when the read index is past the end
Men_readSlice(f, delim) ==
    IF f.i > f.len THEN Ret(f, 0, "panic", <<>>)
    ELSE LET rest == Slice(f, f.i, f.len)
             i == IndexByte(rest, delim)
             end == IF i < 0 THEN f.len ELSE f.i + i + 1
             err == IF i < 0 /\ (Len(rest) = 0 \/ rest[1] = delim)
                    THEN "EOF" ELSE "nil"
         IN  Ret([f EXCEPT !.i = end], end - f.i, err, Slice(f, f.i, end))

Men_ReadBytes(f, delim) == Men_readSlice(f, delim)

Men_ReadString(f, delim) == Men_readSlice(f, delim)

\* ReadAt counting the offset from the read index
Men_ReadAt_fromIndex(f, k, off) ==
    IF off < 0 THEN Ret(f, 0, "error", <<>>)
    ELSE IF f.i + off >= f.len THEN Ret(f, 0, "EOF", <<>>)
    ELSE LET n == Min(k, f.len - f.i - off)
         IN  Ret(f, n, IF n < k THEN "EOF" ELSE "nil",
                 Slice(f, f.i + off, f.i + off + n))

\* ReadAt with len(b) = k
Men_ReadAt(f, k, off) ==
    IF off < 0 THEN Ret(f, 0, "error", <<>>)
    ELSE IF off >= f.len THEN Ret(f, 0, "EOF", <<>>)
    ELSE LET n == Min(k, f.len - off)
         IN  Ret(f, n, IF n < k THEN "EOF" ELSE "nil", Slice(f, off, off + n))

Men_Seek(f, offset, whence) ==
    LET f0 == [f EXCEPT !.prevRune = -1]
        abs == IF whence = SeekStart THEN offset
               ELSE IF whence = SeekCurrent THEN f0.i + offset
               ELSE f0.len + offset
    IN  IF whence \notin {SeekStart, SeekCurrent, SeekEnd} THEN Ret(f0, 0, "error", <<>>)
        ELSE IF abs < 0 THEN Ret(f0, 0, "error", <<>>)
        ELSE Ret([f0 EXCEPT !.i = abs], abs, "nil", <<>>)

(***************************************************************************)
(* Construction.                                                           *)
(***************************************************************************)
Kinds == {"FakeIO", "SyncFakeIO", "SingleFakeIO", "MenFakeIO"}

MemKinds == {"FakeIO", "SyncFakeIO"}

\* NewFakeIO(make([]byte, 0, c)) and NewSyncFakeIO(make([]byte, 0, c))
NewFakeIO(c) == [ZeroFio EXCEPT !.arr = Zeros(c), !.isnil = FALSE]

\* the buffers a caller can construct: the zero value, or an empty buffer of a
\* chosen capacity; ManualReset is a public field of SyncFakeIO
InitFios(k) ==
    IF k = "FakeIO" THEN {ZeroFio} \cup {NewFakeIO(c) : c \in 0..MaxCap}
    ELSE IF k = "SyncFakeIO"
    THEN {[g EXCEPT !.ManualReset = b] :
             g \in {ZeroFio} \cup {NewFakeIO(c) : c \in 0..MaxCap}, b \in BOOLEAN}
    ELSE IF k = "SingleFakeIO"
    THEN {ZeroFio} \cup {NewSingleFakeIO(c) : c \in 0..MaxCap}
    ELSE {ZeroFio} \cup {NewBufferIO(c) : c \in 0..MaxCap}

(***************************************************************************)
(* The methods of the interfaces FakeReader / FakeWriter, dispatched on    *)
(* the dynamic type.                                                       *)
(***************************************************************************)
Write_(k, f, p) ==
    CASE k = "FakeIO" -> FakeIO_Write(f, p)
      [] k = "SyncFakeIO" -> Sync_Write(f, p)
      [] k = "SingleFakeIO" -> Single_Write(f, p)
      [] k = "MenFakeIO" -> Men_Write(f, p)

WriteString_(k, f, p) ==
    CASE k = "FakeIO" -> FakeIO_WriteString(f, p)
      [] k = "SyncFakeIO" -> Sync_WriteString(f, p)
      [] k = "SingleFakeIO" -> Single_WriteString(f, p)
      [] k = "MenFakeIO" -> Men_WriteString(f, p)

WriteByte_(k, f, c) ==
    CASE k = "FakeIO" -> FakeIO_WriteByte(f, c)
      [] k = "SyncFakeIO" -> Sync_WriteByte(f, c)
      [] k = "SingleFakeIO" -> Single_WriteByte(f, c)
      [] k = "MenFakeIO" -> Men_WriteByte(f, c)

WriteRune_(k, f, r) ==
    CASE k = "FakeIO" -> FakeIO_WriteRune(f, r)
      [] k = "SyncFakeIO" -> Sync_WriteRune(f, r)
      [] k = "SingleFakeIO" -> Single_WriteRune(f, r)
      [] k = "MenFakeIO" -> Men_WriteRune(f, r)

WriteAt_(k, f, p, pos) ==
    CASE k = "FakeIO" -> FakeIO_WriteAt(f, p, pos)
      [] k = "SyncFakeIO" -> Sync_WriteAt(f, p, pos)
      [] k = "SingleFakeIO" -> Single_WriteAt(f, p, pos)
      [] k = "MenFakeIO" -> Men_WriteAt(f, p, pos)

Read_(k, f, n) ==
    CASE k = "FakeIO" -> FakeIO_Read(f, n)
      [] k = "SyncFakeIO" -> Sync_Read(f, n)
      [] k = "SingleFakeIO" -> Single_Read(f, n)
      [] k = "MenFakeIO" -> Men_Read(f, n)

ReadByte_(k, f) ==
    CASE k = "FakeIO" -> FakeIO_ReadByte(f)
      [] k = "SyncFakeIO" -> Sync_ReadByte(f)
      [] k = "SingleFakeIO" -> Single_ReadByte(f)
      [] k = "MenFakeIO" -> Men_ReadByte(f)

ReadRune_(k, f) ==
    CASE k = "FakeIO" -> FakeIO_ReadRune(f)
      [] k = "SyncFakeIO" -> Sync_ReadRune(f)
      [] k = "SingleFakeIO" -> Single_ReadRune(f)
      [] k = "MenFakeIO" -> Men_ReadRune(f)

UnreadByte_(k, f) ==
    CASE k = "FakeIO" -> FakeIO_UnreadByte(f)
      [] k = "SyncFakeIO" -> Sync_UnreadByte(f)
      [] k = "SingleFakeIO" -> Single_UnreadByte(f)
      [] k = "MenFakeIO" -> Men_UnreadByte(f)

UnreadRune_(k, f) ==
    CASE k = "FakeIO" -> FakeIO_UnreadRune(f)
      [] k = "SyncFakeIO" -> Sync_UnreadRune(f)
      [] k = "SingleFakeIO" -> Single_UnreadRune(f)
      [] k = "MenFakeIO" -> Men_UnreadRune(f)

ReadBytes_(k, f, delim) ==
    CASE k = "FakeIO" -> FakeIO_ReadBytes(f, delim)
      [] k = "SyncFakeIO" -> Sync_ReadBytes(f, delim)
      [] k = "SingleFakeIO" -> Single_ReadBytes(f, delim)
      [] k = "MenFakeIO" -> Men_ReadBytes(f, delim)

ReadString_(k, f, delim) ==
    CASE k = "FakeIO" -> FakeIO_ReadString(f, delim)
      [] k = "SyncFakeIO" -> Sync_ReadString(f, delim)
      [] k = "SingleFakeIO" -> Single_ReadString(f, delim)
      [] k = "MenFakeIO" -> Men_ReadString(f, delim)

Seek_(k, f, offset, whence) ==
    CASE k = "FakeIO" -> FakeIO_Seek(f, offset, whence)
      [] k = "SyncFakeIO" -> Sync_Seek(f, offset, whence)
      [] k = "SingleFakeIO" -> Single_Seek(f, offset, whence)
      [] k = "MenFakeIO" -> Men_Seek(f, offset, whence)

Truncate_(k, f, n) ==
    CASE k = "FakeIO" -> FakeIO_Truncate(f, n)
      [] k = "SyncFakeIO" -> Sync_Truncate(f, n)
      [] k = "SingleFakeIO" -> Single_Truncate(f, n)
      [] k = "MenFakeIO" -> Men_Truncate(f, n)

\* SingleFakeIO.Reset takes a slice it cannot store; the others take nothing
Reset_(k, f) ==
    CASE k = "FakeIO" -> FakeIO_Reset(f)
      [] k = "SyncFakeIO" -> Sync_Reset(f)
      [] k = "SingleFakeIO" -> Single_Reset(f, <<97>>)
      [] k = "MenFakeIO" -> Men_Reset(f)

ReadAt_(k, f, n, off) ==
    CASE k = "FakeIO" -> FakeIO_ReadAt(f, n, off)
      [] k = "SyncFakeIO" -> Sync_ReadAt(f, n, off)
      [] k = "SingleFakeIO" -> Single_ReadAt(f, n, off)
      [] k = "MenFakeIO" -> Men_ReadAt(f, n, off)

\* men_buffer.FakeIO has no WriteTo
WriteTo_(k, f, room) ==
    CASE k = "FakeIO" -> FakeIO_WriteTo(f, room)
      [] k = "SyncFakeIO" -> Sync_WriteTo(f, room)
      [] k = "SingleFakeIO" -> Single_WriteTo(f, room)

\* men_buffer.FakeIO has no ReadFrom
ReadFrom_(k, f, src) ==
    CASE k = "FakeIO" -> FakeIO_ReadFrom(f, src)
      [] k = "SyncFakeIO" -> Sync_ReadFrom(f, src)
      [] k = "SingleFakeIO" -> Single_ReadFrom(f, src)

\* the read cursor: off in FakeIO and SyncFakeIO, i in the other two
Cursor(k, f) == IF k \in MemKinds THEN f.off ELSE f.i

\* the stored bytes fio.buf[:len]
Stored(f) == Slice(f, 0, f.len)

(***************************************************************************)
(* One caller: every action is one call of a public method.                *)
(***************************************************************************)
WriteOps == {"Write", "WriteByte", "WriteString", "WriteRune"}

ReadOps == {"Read", "ReadByte", "ReadRune", "ReadBytes", "ReadString", "WriteTo"}

SeekOps == {"Seek", "SeekStart", "SeekEnd"}

NewCall == [op |-> "New", err |-> "nil", n |-> 0, data |-> <<>>, arg |-> 0]

InitSeq(tr) ==
    /\ kind \in Kinds
    /\ fio \in InitFios(kind)
    /\ last = NewCall
    /\ track = tr
    /\ written = <<>>
    /\ readOut = <<>>
    /\ tainted = FALSE
    /\ lock = 0
    /\ pc = <<>>
    /\ wl = <<>>
    /\ wm = <<>>
    /\ todo = <<>>

\* the history of a tracking behaviour
Track(op, err, data) ==
    IF track
    THEN /\ written' = IF op \in WriteOps /\ err = "nil" THEN written \o data
                       ELSE written
         /\ readOut' = IF op \in ReadOps /\ err # "panic" THEN readOut \o data
                       ELSE IF op \in SeekOps THEN <<>>
                       ELSE readOut
         /\ tainted' = (tainted \/ (op \in WriteOps /\ last.op \notin WriteOps \cup {"New"}))
    ELSE UNCHANGED <<written, readOut, tainted>>

\* a call of method op that ends as r: inp is what the write family was
\* given, r.data what the read family returned; arg is the delimiter of
\* ReadBytes / ReadString and the length of the input of a write
Step(op, r, inp, arg) ==
    /\ fio' = r.f
    /\ last' = [op |-> op, err |-> r.err, n |-> r.n, data |-> r.data, arg |-> arg]
    /\ Track(op, r.err, IF op \in WriteOps THEN inp ELSE r.data)
    /\ UNCHANGED <<kind, track, lock, pc, wl, wm, todo>>

\* the bounds on what is stored and written
WriteBound(n) ==
    /\ fio.len + n <= (IF track THEN MaxTotal ELSE MaxLen)
    /\ track => Len(written) + n <= MaxTotal

ReadBound(r) == track => Len(readOut) + Len(r.data) <= MaxTotal

Write(p) ==
    /\ WriteBound(Len(p))
    /\ Step("Write", Write_(kind, fio, p), p, Len(p))

WriteString(p) ==
    /\ WriteBound(Len(p))
    /\ Step("WriteString", WriteString_(kind, fio, p), p, Len(p))

WriteByte(c) ==
    /\ WriteBound(1)
    /\ Step("WriteByte", WriteByte_(kind, fio, c), <<c>>, 1)

WriteRune(r) ==
    /\ WriteBound(Len(EncodeRune(r)))
    /\ Step("WriteRune", WriteRune_(kind, fio, r), EncodeRune(r), Len(EncodeRune(r)))

WriteAt(p, pos) ==
    /\ pos + Len(p) <= MaxLen
    /\ Step("WriteAt", WriteAt_(kind, fio, p, pos), p, Len(p))

Read(k) ==
    LET r == Read_(kind, fio, k)
    IN  ReadBound(r) /\ Step("Read", r, <<>>, 0)

ReadByte ==
    LET r == ReadByte_(kind, fio)
    IN  ReadBound(r) /\ Step("ReadByte", r, <<>>, 0)

ReadRune ==
    LET r == ReadRune_(kind, fio)
    IN  ReadBound(r) /\ Step("ReadRune", r, <<>>, 0)

UnreadByte == Step("UnreadByte", UnreadByte_(kind, fio), <<>>, 0)

UnreadRune == Step("UnreadRune", UnreadRune_(kind, fio), <<>>, 0)

ReadBytes(delim) ==
    LET r == ReadBytes_(kind, fio, delim)
    IN  ReadBound(r) /\ Step("ReadBytes", r, <<>>, delim)

ReadString(delim) ==
    LET r == ReadString_(kind, fio, delim)
    IN  ReadBound(r) /\ Step("ReadString", r, <<>>, delim)

Seek(offset, whence) ==
    LET r == Seek_(kind, fio, offset, whence)
    IN  /\ Cursor(kind, r.f) <= MaxLen + 1
        /\ Step("Seek", r, <<>>, 0)

SeekStartCall ==
    /\ kind = "SyncFakeIO"
    /\ Step("SeekStart", Ret(Sync_SeekStart(fio), 0, "nil", <<>>), <<>>, 0)

SeekEndCall ==
    /\ kind = "SyncFakeIO"
    /\ Step("SeekEnd", Ret(Sync_SeekEnd(fio), 0, "nil", <<>>), <<>>, 0)

Truncate(n) == Step("Truncate", Truncate_(kind, fio, n), <<>>, 0)

Reset == Step("Reset", Ret(Reset_(kind, fio), 0, "nil", <<>>), <<>>, 0)

WriteTo(room) ==
    /\ kind # "MenFakeIO"
    /\ LET r == WriteTo_(kind, fio, room)
       IN  ReadBound(r) /\ Step("WriteTo", r, <<>>, 0)

Len_(k, f) ==
    CASE k = "FakeIO" -> FakeIO_Len(f)
      [] k = "SyncFakeIO" -> Sync_len(f)
      [] k = "SingleFakeIO" -> Single_Len(f)
      [] k = "MenFakeIO" -> Men_Len(f)

ReadFrom(src) ==
    /\ kind # "MenFakeIO"
    /\ LET r == ReadFrom_(kind, fio, src)
       IN  r.f.len <= MaxLen /\ Step("ReadFrom", r, <<>>, 0)

\* Close is a method of mem.SyncFakeIO and mem.SingleFakeIO only
CloseKinds == {"SyncFakeIO", "SingleFakeIO"}

Close_(k, f) ==
    CASE k = "SyncFakeIO" -> Sync_Close(f)
      [] k = "SingleFakeIO" -> Single_Close(f)

Close ==
    /\ kind \in CloseKinds
    /\ Step("Close", Close_(kind, fio), <<>>, 0)

\* Grow is a method of mem.FakeIO and mem.SyncFakeIO only
Grow_(k, f, n) ==
    CASE k = "FakeIO" -> FakeIO_Grow(f, n)
      [] k = "SyncFakeIO" -> Sync_Grow(f, n)

Grow(n) ==
    /\ kind \in MemKinds
    /\ Step("Grow", Grow_(kind, fio, n), <<>>, n)

ReadAt(k, off) == Step("ReadAt", ReadAt_(kind, fio, k, off), <<>>, 0)

\* the (offset, whence) pairs handed to Seek: positions from the start, steps
\* around the cursor and the end, and an unknown whence
SeekArgs ==
    {<<o, SeekStart>> : o \in {-1, 0, 1}}
        \cup {<<o, w>> : o \in {-1, 1}, w \in {SeekCurrent, SeekEnd}}
        \cup {<<0, 3>>}

Init == InitSeq(FALSE)

Next ==
    \/ \E p \in Chunks : Write(p)
    \/ \E c \in Bytes : WriteByte(c)
    \/ \E r \in Runes : WriteRune(r)
    \/ \E p \in AtChunks, pos \in {0, 1, MaxLen} : WriteAt(p, pos)
    \/ \E k \in 0..MaxRead : Read(k)
    \/ ReadByte
    \/ ReadRune
    \/ UnreadByte
    \/ UnreadRune
    \/ \E d \in Delims : ReadBytes(d)
    \/ \E d \in Delims : ReadString(d)
    \/ \E a \in SeekArgs : Seek(a[1], a[2])
    \/ SeekStartCall
    \/ SeekEndCall
    \/ \E n \in {-1, 0, 1, MaxLen} : Truncate(n)
    \/ Reset
    \/ \E room \in {0, 1, MaxLen} : WriteTo(room)

Spec == Init /\ [][Next]_vars

(***************************************************************************)
(* Write / Read only, with the history recorded.                           *)
(***************************************************************************)
InitTrack == InitSeq(TRUE)

NextWR ==
    \/ \E p \in Chunks : Write(p)
    \/ \E k \in 0..MaxRead : Read(k)

SpecWR == InitTrack /\ [][NextWR]_vars

(***************************************************************************)
(* The write family only, with the history recorded.                       *)
(***************************************************************************)
NextW ==
    \/ \E p \in Chunks : Write(p)
    \/ \E c \in Bytes : WriteByte(c)
    \/ \E p \in Chunks : WriteString(p)

SpecW == InitTrack /\ [][NextW]_vars

(***************************************************************************)
(* SyncFakeIO with ManualReset set, and no Reset, Truncate or Close.       *)
(***************************************************************************)
InitManual ==
    /\ InitTrack
    /\ kind = "SyncFakeIO"
    /\ fio.ManualReset

NextManual ==
    \/ \E p \in Chunks : Write(p)
    \/ \E r \in Runes : WriteRune(r)
    \/ \E k \in 0..MaxRead : Read(k)
    \/ ReadByte
    \/ ReadRune
    \/ \E room \in {0, 1, MaxTotal} : WriteTo(room)
    \/ SeekStartCall
    \/ Seek(0, SeekStart)

SpecManual == InitManual /\ [][NextManual]_vars

(***************************************************************************)
(* Concurrent callers of SyncFakeIO.Write, then one reader.  A Write is     *)
(* taken apart into the steps another goroutine could fall between: Lock,  *)
(* l := len(fio.buf), the reslice or grow, and the copy with the deferred  *)
(* Unlock.                                                                 *)
(***************************************************************************)
NWriters == 2

RecsPer == 2

RecLen == 2

MaxChunks == 3

MaxSrc == 3

MaxFind == 2

Writers == 1..NWriters

\* the fixed record of writer w
Record(w) == [j \in 1..RecLen |-> 96 + w]

InitConc ==
    /\ kind = "SyncFakeIO"
    /\ fio \in InitFios(kind)
    /\ last = NewCall
    /\ track = TRUE
    /\ written = <<>>
    /\ readOut = <<>>
    /\ tainted = FALSE
    /\ lock = 0
    /\ pc = [w \in Writers |-> "idle"]
    /\ wl = [w \in Writers |-> 0]
    /\ wm = [w \in Writers |-> 0]
    /\ todo = [w \in Writers |-> RecsPer]

\* a Write that does not wait for the mutex
MutexFree_unlocked(l) == TRUE

\* fio.m.Lock() returns only while no one holds the mutex
MutexFree(l) == l = 0

\* fio.m.Lock(); fio.lastRead = opInvalid
WLock(w) ==
    /\ pc[w] = "idle"
    /\ todo[w] > 0
    /\ MutexFree(lock)
    /\ lock' = w
    /\ fio' = [fio EXCEPT !.lastRead = opInvalid]
    /\ pc' = [pc EXCEPT ![w] = "locked"]
    /\ UNCHANGED <<kind, last, track, written, readOut, tainted, wl, wm, todo>>

\* l := len(fio.buf) in tryGrowByReslice
WLen(w) ==
    /\ pc[w] = "locked"
    /\ wl' = [wl EXCEPT ![w] = fio.len]
    /\ pc' = [pc EXCEPT ![w] = "sized"]
    /\ UNCHANGED <<kind, fio, last, track, written, readOut, tainted, lock, wm, todo>>

\* the rest of tryGrowByReslice and, when it fails, grow; a panic of grow ends
\* the call, the deferred Unlock running
WGrow(w) ==
    /\ pc[w] = "sized"
    /\ LET t == Sync_tryGrowByResliceAt(fio, wl[w], RecLen)
           g == IF t.ok THEN [f |-> t.f, m |-> t.m, panic |-> FALSE]
                ELSE Sync_grow(fio, RecLen)
       IN  /\ fio' = g.f
           /\ wm' = [wm EXCEPT ![w] = g.m]
           /\ pc' = [pc EXCEPT ![w] = IF g.panic THEN "idle" ELSE "grown"]
           /\ lock' = IF g.panic THEN 0 ELSE lock
           /\ todo' = IF g.panic THEN [todo EXCEPT ![w] = 0] ELSE todo
           /\ last' = IF g.panic
                      THEN [op |-> "Write", err |-> "panic", n |-> 0, data |-> <<>>,
                            arg |-> RecLen]
                      ELSE last
    /\ UNCHANGED <<kind, track, written, readOut, tainted, wl>>

\* return copy(fio.buf[m:], p), nil; and the deferred fio.m.Unlock()
WCopy(w) ==
    /\ pc[w] = "grown"
    /\ fio' = [fio EXCEPT !.arr = CopyAt(fio.arr, wm[w], fio.len - wm[w], Record(w))]
    /\ last' = [op |-> "Write", err |-> "nil", n |-> CopyN(fio.len - wm[w], Record(w)),
                data |-> <<>>, arg |-> RecLen]
    /\ written' = written \o Record(w)
    /\ lock' = 0
    /\ todo' = [todo EXCEPT ![w] = todo[w] - 1]
    /\ pc' = [pc EXCEPT ![w] = "idle"]
    /\ UNCHANGED <<kind, track, readOut, tainted, wl, wm>>

WritersDone == \A w \in Writers : todo[w] = 0 /\ pc[w] = "idle"

\* the reader, started once the writers have finished, calls Read with
\* len(p) = k until it reports io.EOF
ReaderRead(k) ==
    /\ WritersDone
    /\ MutexFree(lock)
    /\ last.err # "EOF"
    /\ LET r == Sync_Read(fio, k)
       IN  /\ fio' = r.f
           /\ last' = [op |-> "Read", err |-> r.err, n |-> r.n, data |-> r.data,
                       arg |-> 0]
           /\ readOut' = readOut \o r.data
    /\ UNCHANGED <<kind, track, written, tainted, lock, pc, wl, wm, todo>>

NextConc ==
    \/ \E w \in Writers : WLock(w)
    \/ \E w \in Writers : WLen(w)
    \/ \E w \in Writers : WGrow(w)
    \/ \E w \in Writers : WCopy(w)
    \/ \E k \in 1..MaxRead : ReaderRead(k)

SpecConc == InitConc /\ [][NextConc]_vars

(***************************************************************************)
(* Writes and delimited reads only, with the history recorded.             *)
(***************************************************************************)
\* valid code points whose encodings take one, two, three and four bytes
RuneSet == {97, 233, 12354, 128512}

NextRune ==
    \/ \E r \in RuneSet : WriteRune(r)
    \/ ReadRune

SpecRune == InitTrack /\ [][NextRune]_vars

NextLines ==
    \/ \E p \in Chunks : Write(p)
    \/ \E c \in Bytes : WriteByte(c)
    \/ \E d \in Delims : ReadBytes(d)
    \/ \E d \in Delims : ReadString(d)

SpecLines == InitTrack /\ [][NextLines]_vars

(***************************************************************************)
(* Sequential writes and reads with ReadAt beside them, the history        *)
(* recorded.                                                               *)
(***************************************************************************)
NextSeq ==
    \/ \E p \in Chunks : Write(p)
    \/ \E k \in 0..MaxRead : Read(k)
    \/ ReadByte
    \/ ReadRune
    \/ \E d \in Delims : ReadBytes(d)
    \/ \E off \in 0..MaxLen : ReadAt(1, off)

SpecSeq == InitTrack /\ [][NextSeq]_vars

(***************************************************************************)
(* mem.FakeIO and mem.SyncFakeIO with capacity reserved by Grow.           *)
(***************************************************************************)
InitGrow == Init /\ kind \in MemKinds

NextGrow ==
    \/ \E n \in -1..MaxLen : Grow(n)
    \/ \E p \in Chunks : Write(p)
    \/ \E c \in Bytes : WriteByte(c)
    \/ \E r \in Runes : WriteRune(r)
    \/ \E k \in 0..MaxRead : Read(k)
    \/ ReadByte

SpecGrow == InitGrow /\ [][NextGrow]_vars

(***************************************************************************)
(* The variants with a Close method.                                       *)
(***************************************************************************)
InitClose == Init /\ kind \in CloseKinds

NextClose ==
    \/ \E p \in Chunks : Write(p)
    \/ \E k \in 0..MaxRead : Read(k)
    \/ ReadByte
    \/ ReadRune
    \/ \E a \in SeekArgs : Seek(a[1], a[2])
    \/ Close

SpecClose == InitClose /\ [][NextClose]_vars

(***************************************************************************)
(* The variants with ReadFrom, fed from finite sources.                    *)
(***************************************************************************)
\* sources: empty, one chunk, two chunks, and one that returns (0, nil) first
Sources == {<<>>, <<<<97>>>>, <<<<97, 10>>>>, <<<<97>>, <<10>>>>, <<<<>>, <<97>>>>}

InitFrom == Init /\ kind # "MenFakeIO"

NextFrom ==
    \/ \E p \in Chunks : Write(p)
    \/ \E k \in 0..MaxRead : Read(k)
    \/ ReadByte
    \/ \E src \in Sources : ReadFrom(src)

SpecFrom == InitFrom /\ [][NextFrom]_vars

(***************************************************************************)
(* files.BufferToFile(path, r)  (src/files/files.go), the file system      *)
(* working: the path is free and every write to the file succeeds.         *)
(* fio.arr is buf, wl[1] is n, todo is what the reader r still holds, wm   *)
(* what it held at the call, readOut the bytes the bufio.Writer w has      *)
(* buffered and written the bytes in the file; pc[1] is the position in    *)
(* the loop and last.err the error returned.                               *)
(***************************************************************************)
\* n bytes b
Run(n, b) == [j \in 1..n |-> b]

\* what one Read of the reader r can return: one byte, one byte less than buf
\* holds, all that buf holds
FileChunks == {Run(1, 97), Run(chunkSize - 1, 98), Run(chunkSize, 10)}

\* the readers: up to MaxChunks chunks, then io.EOF
FileSources == UNION {[1..n -> FileChunks] : n \in 0..MaxChunks}

\* w := bufio.NewWriter(f); buf := make([]byte, 4096)
InitFile ==
    /\ kind = "BufferToFile"
    /\ fio = [ZeroFio EXCEPT !.arr = Zeros(chunkSize), !.len = chunkSize,
                             !.isnil = FALSE]
    /\ last = [NewCall EXCEPT !.op = "BufferToFile", !.err = "running"]
    /\ track = FALSE
    /\ written = <<>>
    /\ readOut = <<>>
    /\ tainted = FALSE
    /\ lock = 0
    /\ pc = <<"read">>
    /\ wl = <<0>>
    /\ wm \in FileSources
    /\ todo = wm

\* bufio.Writer.Write(p): p goes to the buffer; when it does not fit, the
\* buffer is filled and flushed to the file first (or, the buffer being
\* empty, p goes to the file directly)
bufio_Write(file, pend, p) ==
    LET avail == defaultBufSize - Len(pend)
    IN  IF Len(p) <= avail THEN [file |-> file, pend |-> pend \o p]
        ELSE IF pend = <<>> THEN [file |-> file \o p, pend |-> <<>>]
        ELSE [file |-> file \o pend \o SubSeq(p, 1, avail),
              pend |-> SubSeq(p, avail + 1, Len(p))]

\* n, err = r.Read(buf); a reader over a finite source never fails otherwise
\* than by io.EOF; if n == 0 { break }
FileRead ==
    /\ pc = <<"read">>
    /\ LET rd == Reader_Read(todo, fio.len)
       IN  /\ fio' = [fio EXCEPT !.arr = CopyAt(fio.arr, 0, fio.len, rd.data)]
           /\ wl' = <<Len(rd.data)>>
           /\ todo' = rd.src
           /\ pc' = IF Len(rd.data) = 0 THEN <<"flush">> ELSE <<"write">>
    /\ UNCHANGED <<kind, last, track, written, readOut, tainted, lock, wm>>

\* n, err = w.Write(buf[:n]); if n != 4096 { return the chunk size error }
FileWrite ==
    /\ pc = <<"write">>
    /\ LET w == bufio_Write(written, readOut, SubSeq(fio.arr, 1, wl[1]))
       IN  /\ written' = w.file
           /\ readOut' = w.pend
    /\ IF wl[1] # chunkSize
       THEN pc' = <<"done">> /\ last' = [last EXCEPT !.err = "error"]
       ELSE pc' = <<"read">> /\ last' = last
    /\ UNCHANGED <<kind, fio, track, tainted, lock, wl, wm, todo>>

\* return w.Flush()
FileFlush ==
    /\ pc = <<"flush">>
    /\ written' = written \o readOut
    /\ readOut' = <<>>
    /\ pc' = <<"done">>
    /\ last' = [last EXCEPT !.err = "nil"]
    /\ UNCHANGED <<kind, fio, track, tainted, lock, wl, wm, todo>>

NextFile == FileRead \/ FileWrite \/ FileFlush

SpecFile == InitFile /\ [][NextFile]_vars

(***************************************************************************)
(* conv.FindUnicodeString(src, find)  (src/unnamed/part_004).  A string is *)
(* the sequence of its code points; wm is src, todo is find, and last the  *)
(* result of the call (n = 1 for true, err = "panic" when rf[idx] is out   *)
(* of range).                                                              *)
(***************************************************************************)
\* the byte index of the j-th code point of str, as `for i, r := range src`
\* reports it
RECURSIVE ByteIndex(_, _)
ByteIndex(str, j) ==
    IF j <= 1 THEN 0 ELSE ByteIndex(str, j - 1) + RuneLen(str[j - 1])

\* the loop of _findUnicodeString from the j-th code point of src on
RECURSIVE findLoop(_, _, _, _, _, _)
findLoop(src, rf, j, idx, start, end) ==
    IF j > Len(src) THEN [start |-> start, end |-> end, panic |-> FALSE]
    ELSE IF idx + 1 > Len(rf) THEN [start |-> start, end |-> end, panic |-> TRUE]
    ELSE IF src[j] = rf[idx + 1]
    THEN LET i == ByteIndex(src, j)
             rfl == Len(rf) - 1
             s2 == IF idx = 0 THEN i ELSE start
             e2 == IF idx # 0 /\ idx = rfl THEN i ELSE end
         IN  IF s2 # -1 /\ e2 # -1
             THEN [start |-> s2, end |-> e2, panic |-> FALSE]
             ELSE findLoop(src, rf, j + 1, idx + 1, s2, e2)
    ELSE findLoop(src, rf, j + 1, 0, start, end)

findUnicodeString(src, find) == findLoop(src, find, 1, 0, -1, -1)

FindUnicodeString(src, find) ==
    LET r == findUnicodeString(src, find)
    IN  [panic |-> r.panic, found |-> r.start # -1 /\ r.end # -1]

\* code points of one byte and of three bytes
FindRunes == {97, 98, 12354}

InitFind ==
    /\ kind = "FindUnicodeString"
    /\ fio = ZeroFio
    /\ last = [NewCall EXCEPT !.op = "call"]
    /\ track = FALSE
    /\ written = <<>>
    /\ readOut = <<>>
    /\ tainted = FALSE
    /\ lock = 0
    /\ pc = <<"call">>
    /\ wl = <<>>
    /\ wm \in UNION {[1..n -> FindRunes] : n \in 0..MaxSrc}
    /\ todo \in UNION {[1..n -> FindRunes] : n \in 1..MaxFind}

FindCall ==
    /\ pc = <<"call">>
    /\ LET r == FindUnicodeString(wm, todo)
       IN  last' = [last EXCEPT !.op = "FindUnicodeString",
                                !.err = IF r.panic THEN "panic" ELSE "nil",
                                !.n = IF ~r.panic /\ r.found THEN 1 ELSE 0]
    /\ pc' = <<"done">>
    /\ UNCHANGED <<kind, fio, track, written, readOut, tainted, lock, wl, wm, todo>>

NextFind == FindCall

SpecFind == InitFind /\ [][NextFind]_vars

(***************************************************************************)
(* Callers of the lock-guarded buffers, mem.SyncFakeIO and                 *)
(* men_buffer.FakeIO.  A call begins when it first touches fio (after      *)
(* fio.m.Lock() if the method takes the lock there) and ends when it       *)
(* returns or panics; pc[w] is the method caller w is in, todo[w] the      *)
(* number of calls it still makes.  A panic is recovered by the caller.    *)
(***************************************************************************)
LockKinds == {"SyncFakeIO", "MenFakeIO"}

\* the calls made: Write("a"), Reset(), Truncate(0), ResetTo("a"),
\* Seek(1, io.SeekEnd), ReadBytes('\n'), Grow(1)
LockOps == {"Write", "Reset", "Truncate", "ResetTo", "Seek", "ReadBytes", "Grow"}

\* ResetTo and Grow are methods of SyncFakeIO only
HasOp(k, op) == k = "SyncFakeIO" \/ op \notin {"ResetTo", "Grow"}

\* whether the method calls fio.m.Lock() before it touches fio:
\* SyncFakeIO.ResetTo does not; men_buffer's Reset does not, and its
\* Truncate(0) returns through Reset before its Lock
TakesLock(k, op) ==
    IF k = "SyncFakeIO" THEN op # "ResetTo"
    ELSE op \notin {"Reset", "Truncate"}

\* whether the unlock is deferred, so that it runs when the method panics
DefersUnlock(k, op) ==
    IF k = "SyncFakeIO"
    THEN op \in {"Write", "WriteString", "Truncate", "ReadFrom", "WriteTo", "Read",
                 "Next"}
    ELSE TRUE

CallOf(k, f, op) ==
    CASE op = "Write" -> Write_(k, f, <<97>>)
      [] op = "Reset" -> Ret(Reset_(k, f), 0, "nil", <<>>)
      [] op = "Truncate" -> Truncate_(k, f, 0)
      [] op = "ResetTo" -> Ret(Sync_ResetTo(f, <<97>>), 0, "nil", <<>>)
      [] op = "Seek" -> Seek_(k, f, 1, SeekEnd)
      [] op = "ReadBytes" -> ReadBytes_(k, f, 10)
      [] op = "Grow" -> Grow_(k, f, 1)

InitLock ==
    /\ kind \in LockKinds
    /\ fio \in InitFios(kind)
    /\ last = NewCall
    /\ track = FALSE
    /\ written = <<>>
    /\ readOut = <<>>
    /\ tainted = FALSE
    /\ lock = 0
    /\ pc = [w \in Writers |-> "idle"]
    /\ wl = [w \in Writers |-> 0]
    /\ wm = [w \in Writers |-> 0]
    /\ todo = [w \in Writers |-> RecsPer]

\* caller w enters a method; fio.m.Lock() returns only while the mutex is free
CallBegin(w, op) ==
    /\ pc[w] = "idle"
    /\ todo[w] > 0
    /\ HasOp(kind, op)
    /\ IF TakesLock(kind, op)
       THEN MutexFree(lock) /\ lock' = w
       ELSE lock' = lock
    /\ pc' = [pc EXCEPT ![w] = op]
    /\ todo' = [todo EXCEPT ![w] = todo[w] - 1]
    /\ UNCHANGED <<kind, fio, last, track, written, readOut, tainted, wl, wm>>

\* caller w leaves the method: its effect on fio, and the unlock unless a
\* panic skipped it; Unlock of a mutex that ResetTo has replaced is fatal
CallEnd(w) ==
    /\ pc[w] # "idle"
    /\ LET op == pc[w]
           r == CallOf(kind, fio, op)
           unlocks == TakesLock(kind, op)
                          /\ (r.err # "panic" \/ DefersUnlock(kind, op))
       IN  /\ fio' = r.f
           /\ lock' = IF op = "ResetTo" \/ unlocks THEN 0 ELSE lock
           /\ last' = [op |-> op, n |-> r.n, data |-> r.data, arg |-> w,
                       err |-> IF unlocks /\ lock = 0 THEN "fatal" ELSE r.err]
    /\ pc' = [pc EXCEPT ![w] = "idle"]
    /\ UNCHANGED <<kind, track, written, readOut, tainted, wl, wm, todo>>

NextLock ==
    \/ \E w \in Writers, op \in LockOps : CallBegin(w, op)
    \/ \E w \in Writers : CallEnd(w)

SpecLock == InitLock /\ [][NextLock]_vars

(***************************************************************************)
(* A line handed out by ReadBytes and the calls that follow it.  The       *)
(* caller keeps the returned []byte: wl holds its place [lo, hi) in the    *)
(* backing array and whether it still shares that array, readOut the       *)
(* bytes it held when ReadBytes returned, written the bytes it holds now.  *)
(***************************************************************************)
\* whether ReadBytes returns the slice of readSlice itself, a reference to
\* fio.buf, and not append(line, slice...)
ReturnsView(k) == k \in {"SingleFakeIO", "MenFakeIO"}

\* a call leaves a new backing array exactly when the capacity has changed
\* (make in grow, Write and WriteAt); the line keeps the old array
AliasCall(op, r, arg) ==
    LET shares == wl # <<>> /\ wl[1].view
        moved == Cap(r.f) # Cap(fio)
    IN  /\ fio' = r.f
        /\ last' = [op |-> op, err |-> r.err, n |-> r.n, data |-> r.data, arg |-> arg]
        /\ written' = IF shares /\ ~moved
                      THEN [j \in 1..(wl[1].hi - wl[1].lo) |-> r.f.arr[wl[1].lo + j]]
                      ELSE written
        /\ wl' = IF shares /\ moved THEN <<[wl[1] EXCEPT !.view = FALSE]>> ELSE wl
        /\ UNCHANGED <<kind, track, readOut, tainted, lock, pc, wm, todo>>

LineReadBytes(delim) ==
    LET r == ReadBytes_(kind, fio, delim)
    IN  /\ wl = <<>>
        /\ r.err # "panic"
        /\ r.data # <<>>
        /\ fio' = r.f
        /\ last' = [op |-> "ReadBytes", err |-> r.err, n |-> r.n, data |-> r.data,
                    arg |-> delim]
        /\ readOut' = r.data
        /\ written' = r.data
        /\ wl' = <<[lo |-> Cursor(kind, fio), hi |-> Cursor(kind, r.f),
                    view |-> ReturnsView(kind)]>>
        /\ UNCHANGED <<kind, track, tainted, lock, pc, wm, todo>>

LineWrite(p) ==
    /\ fio.len + Len(p) <= MaxLen
    /\ AliasCall("Write", Write_(kind, fio, p), Len(p))

LineWriteAt(p, pos) ==
    /\ pos + Len(p) <= MaxLen
    /\ AliasCall("WriteAt", WriteAt_(kind, fio, p, pos), Len(p))

LineReset == AliasCall("Reset", Ret(Reset_(kind, fio), 0, "nil", <<>>), 0)

NextAlias ==
    \/ \E d \in Delims : LineReadBytes(d)
    \/ \E p \in Chunks : LineWrite(p)
    \/ \E p \in AtChunks, pos \in 0..MaxLen : LineWriteAt(p, pos)
    \/ LineReset

SpecAlias == Init /\ [][NextAlias]_vars

(***************************************************************************)
(* mem.FakeIO and mem.SyncFakeIO with ManualReset false under the methods  *)
(* the two types share, one caller.                                        *)
(***************************************************************************)
Next_(k, f, n) ==
    CASE k = "FakeIO" -> FakeIO_Next(f, n)
      [] k = "SyncFakeIO" -> Sync_Next(f, n)

\* one call by the single caller: SyncFakeIO's method first waits in
\* fio.m.Lock() (locks is FALSE for the two paths that leave before it), and
\* a panic passes by an Unlock that is not deferred
EqStep(op, r, arg, locks) ==
    /\ kind = "SyncFakeIO" /\ locks => MutexFree(lock)
    /\ fio' = r.f
    /\ last' = [op |-> op, err |-> r.err, n |-> r.n, data |-> r.data, arg |-> arg]
    /\ lock' = IF kind = "SyncFakeIO" /\ locks /\ r.err = "panic"
                    /\ ~DefersUnlock(kind, op)
               THEN 1 ELSE lock
    /\ UNCHANGED <<kind, track, written, readOut, tainted, pc, wl, wm, todo>>

EqWrite(p) ==
    fio.len + Len(p) <= MaxLen /\ EqStep("Write", Write_(kind, fio, p), Len(p), TRUE)

EqWriteString(p) ==
    /\ fio.len + Len(p) <= MaxLen
    /\ EqStep("WriteString", WriteString_(kind, fio, p), Len(p), TRUE)

EqWriteByte(c) ==
    fio.len + 1 <= MaxLen /\ EqStep("WriteByte", WriteByte_(kind, fio, c), 1, TRUE)

EqWriteRune(r) ==
    /\ fio.len + Len(EncodeRune(r)) <= MaxLen
    /\ EqStep("WriteRune", WriteRune_(kind, fio, r), r, TRUE)

EqWriteAt(p, pos) ==
    pos + Len(p) <= MaxLen /\ EqStep("WriteAt", WriteAt_(kind, fio, p, pos), pos, TRUE)

EqRead(k) == EqStep("Read", Read_(kind, fio, k), k, TRUE)

EqReadByte == EqStep("ReadByte", ReadByte_(kind, fio), 0, TRUE)

EqReadRune == EqStep("ReadRune", ReadRune_(kind, fio), 0, TRUE)

EqUnreadByte == EqStep("UnreadByte", UnreadByte_(kind, fio), 0, TRUE)

EqUnreadRune == EqStep("UnreadRune", UnreadRune_(kind, fio), 0, TRUE)

EqReadBytes(d) == EqStep("ReadBytes", ReadBytes_(kind, fio, d), d, TRUE)

EqReadString(d) == EqStep("ReadString", ReadString_(kind, fio, d), d, TRUE)

\* ReadAt returns on a negative offset before fio.m.RLock()
EqReadAt(k, off) == EqStep("ReadAt", ReadAt_(kind, fio, k, off), off, off >= 0)

EqSeek(offset, whence) ==
    LET r == Seek_(kind, fio, offset, whence)
    IN  r.f.off <= MaxLen + 1 /\ EqStep("Seek", r, offset, TRUE)

EqTruncate(n) == EqStep("Truncate", Truncate_(kind, fio, n), n, TRUE)

EqReset == EqStep("Reset", Ret(Reset_(kind, fio), 0, "nil", <<>>), 0, TRUE)

\* Grow panics on a negative count before fio.m.Lock()
EqGrow(n) == EqStep("Grow", Grow_(kind, fio, n), n, n >= 0)

EqNext(n) == EqStep("Next", Next_(kind, fio, n), n, TRUE)

InitEq == Init /\ kind \in MemKinds /\ ~fio.ManualReset

NextEq ==
    \/ \E p \in Chunks : EqWrite(p)
    \/ \E p \in Chunks : EqWriteString(p)
    \/ \E c \in Bytes : EqWriteByte(c)
    \/ \E r \in Runes : EqWriteRune(r)
    \/ \E p \in AtChunks, pos \in 0..MaxLen : EqWriteAt(p, pos)
    \/ \E k \in 0..MaxRead : EqRead(k)
    \/ EqReadByte
    \/ EqReadRune
    \/ EqUnreadByte
    \/ EqUnreadRune
    \/ \E d \in Delims : EqReadBytes(d)
    \/ \E d \in Delims : EqReadString(d)
    \/ \E k \in 0..MaxRead, off \in -1..MaxLen : EqReadAt(k, off)
    \/ \E a \in SeekArgs : EqSeek(a[1], a[2])
    \/ \E n \in {-1, 0, 1, MaxLen} : EqTruncate(n)
    \/ EqReset
    \/ \E n \in -1..MaxLen : EqGrow(n)
    \/ \E n \in -1..MaxRead : EqNext(n)

SpecEq == InitEq /\ [][NextEq]_vars

(***************************************************************************)
(* Random access beside the sequential calls.                              *)
(***************************************************************************)
NextAt ==
    \/ \E p \in Chunks : Write(p)
    \/ \E p \in AtChunks, pos \in 0..MaxLen : WriteAt(p, pos)
    \/ \E k \in 0..MaxRead : Read(k)
    \/ ReadByte
    \/ \E k \in 0..MaxRead, off \in -1..(MaxLen + 1) : ReadAt(k, off)
    \/ \E n \in {0, 1} : Truncate(n)
    \/ Reset

SpecAt == Init /\ [][NextAt]_vars

(***************************************************************************)
(* Helpers of the properties.                                              *)
(***************************************************************************)
IsPrefix(s, t) == Len(s) <= Len(t) /\ SubSeq(t, 1, Len(s)) = s

EndsWith(s, c) == Len(s) > 0 /\ s[Len(s)] = c

\* Bytes(): the unread portion in FakeIO / SyncFakeIO, the whole of fio.buf in
\* the other two
Bytes_(k, f) ==
    CASE k = "FakeIO" -> FakeIO_Bytes(f)
      [] k = "SyncFakeIO" -> Sync_Bytes(f)
      [] k = "SingleFakeIO" -> Single_Bytes(f)
      [] k = "MenFakeIO" -> Men_Bytes(f)

\* a caller's loop `for { n, err := fio.Read(p); ...; if err == io.EOF { break } }`
\* with len(p) = MaxRead, on a SyncFakeIO: the bytes it collects
RECURSIVE ReadAllSync(_, _)
ReadAllSync(f, fuel) ==
    IF fuel = 0 THEN <<>>
    ELSE LET r == Sync_Read(f, MaxRead)
         IN  IF r.err = "EOF" THEN <<>> ELSE r.data \o ReadAllSync(r.f, fuel - 1)

(***************************************************************************)
(* Properties.                                                             *)
(***************************************************************************)
\* C1: with Write and Read calls only, what Read has returned so far is a
\* prefix of what was written, and when Read reports end-of-data everything
\* written has been returned, in order.
C1_WriteReadRoundTrip ==
    /\ IsPrefix(readOut, written)
    /\ (last.op = "Read" /\ last.err = "EOF") => readOut = written

\* C1 witness: MaxTotal bytes were written and read back up to end-of-data, after
\* the storage was reallocated
C1_Witness ==
    /\ last.op = "Read"
    /\ last.err = "EOF"
    /\ Len(readOut) = MaxTotal
    /\ Cap(fio) < smallBufferSize

\* C2: with the write family only, every call returns the length of its input
\* and a nil error, and Bytes() is the concatenation of the inputs.
C2_WritesConcatenate ==
    last.op \in {"Write", "WriteByte", "WriteString"} =>
        /\ last.err = "nil"
        /\ last.op # "WriteByte" => last.n = last.arg
        /\ Bytes_(kind, fio) = written

\* C2 witness: MaxTotal bytes went into a buffer whose storage was reallocated
C2_Witness ==
    /\ last.op = "WriteByte"
    /\ Len(written) = MaxTotal
    /\ Cap(fio) > MaxCap
    /\ Cap(fio) < smallBufferSize

\* the j-th span of RecLen bytes of what the reader got (j from 0)
Span(j) == SubSeq(readOut, j * RecLen + 1, (j + 1) * RecLen)

\* C3: when the reader that started after the last concurrent Write reaches
\* end-of-data, it has got as many bytes as were written, every Write returned
\* the record's length, and the bytes are whole records, RecsPer of each writer.
C3_ConcurrentWritesIntact ==
    /\ (last.op = "Write") => (last.err = "nil" /\ last.n = RecLen)
    /\ (last.op = "Read" /\ last.err = "EOF") =>
          /\ Len(readOut) = NWriters * RecsPer * RecLen
          /\ \A j \in 0..(NWriters * RecsPer - 1) : \E w \in Writers : Span(j) = Record(w)
          /\ \A w \in Writers :
                Cardinality({j \in 0..(NWriters * RecsPer - 1) : Span(j) = Record(w)})
                    = RecsPer

\* C3 witness: the reader drained everything, the writers' records alternating
C3_Witness ==
    /\ last.op = "Read"
    /\ last.err = "EOF"
    /\ Len(readOut) = NWriters * RecsPer * RecLen
    /\ Span(0) = Record(2)
    /\ Span(1) = Record(1)
    /\ Span(2) = Record(2)

\* C4: in the auto-reset buffers a Read that reports end-of-data, the cursor
\* not having been moved past the stored bytes, leaves the stored length 0 and
\* the read cursor 0.
C4_ReadResetsDrained ==
    (/\ kind \in MemKinds
     /\ ~fio.ManualReset
     /\ last.op = "Read"
     /\ last.err = "EOF"
     /\ fio.off <= fio.len) => (FakeIO_Size(fio) = 0 /\ fio.off = 0)

\* C5: with ManualReset set, as long as no write follows a read or a seek the
\* stored content is what was written, and reading from the start (SeekStart or
\* Seek(0, io.SeekStart)) to end-of-data returns it all again.
C5_ManualResetKeepsContent ==
    ~tainted =>
        /\ Stored(fio) = written
        /\ ReadAllSync(Sync_SeekStart(fio), MaxTotal + 1) = written
        /\ ReadAllSync(Sync_Seek(fio, 0, SeekStart).f, MaxTotal + 1) = written

\* C5 witness: everything written was drained, the last call reporting
\* end-of-data
C5_Witness ==
    /\ ~tainted
    /\ last.op \in {"Read", "ReadByte", "ReadRune"}
    /\ last.err = "EOF"
    /\ readOut = written
    /\ Len(written) >= 3

\* C6: with ManualReset set and no Reset, Truncate or Close, reading from
\* offset 0 to end-of-data returns every byte written so far.
C6_RereadAllWritten == ReadAllSync(Sync_SeekStart(fio), MaxTotal + 1) = written

\* C7: after a successful ReadByte, UnreadByte succeeds and puts the cursor back
\* where it was before the ReadByte, and the next ReadByte returns the same byte.
C7_UnreadByteUndoesReadByte ==
    [][(last'.op = "ReadByte" /\ last'.err = "nil") =>
          LET u == UnreadByte_(kind, fio')
              again == ReadByte_(kind, u.f)
          IN  /\ u.err = "nil"
              /\ Cursor(kind, u.f) = Cursor(kind, fio)
              /\ again.err = "nil"
              /\ again.data = last'.data]_vars

\* C7 witness: a ReadByte returned a byte that is not the first one stored
C7_Witness ==
    /\ last.op = "ReadByte"
    /\ last.err = "nil"
    /\ Cursor(kind, fio) = 2

\* C8: unless the most recent call was a read that returned no error and
\* consumed at least one byte, UnreadByte returns an error and leaves the cursor.
C8_UnreadByteNeedsRead ==
    ~(/\ last.op \in {"Read", "ReadByte", "ReadRune", "ReadBytes", "ReadString"}
      /\ last.err = "nil"
      /\ last.n >= 1) =>
        LET u == UnreadByte_(kind, fio)
        IN  u.err # "nil" /\ Cursor(kind, u.f) = Cursor(kind, fio)

\* C9: right after a read or a write other than a successful ReadRune,
\* UnreadRune returns an error and leaves the cursor.
C9_UnreadRuneNeedsReadRune ==
    (/\ last.op \in WriteOps \cup {"WriteAt", "Read", "ReadByte", "ReadRune",
                                   "ReadBytes", "ReadString"}
     /\ ~(last.op = "ReadRune" /\ last.err = "nil")) =>
        LET u == UnreadRune_(kind, fio)
        IN  u.err # "nil" /\ Cursor(kind, u.f) = Cursor(kind, fio)

Unread(k, f) == Slice(f, Cursor(k, f), f.len)

\* a caller's loop `for { line, err := fio.ReadString(d); ...; if err != nil
\* { break } }`: what every call returned and where it left the cursor
RECURSIVE ReadLines(_, _, _, _)
ReadLines(k, f, d, fuel) ==
    IF fuel = 0 THEN <<>>
    ELSE LET r == ReadString_(k, f, d)
             rec == [data |-> r.data, err |-> r.err, cur |-> Cursor(k, r.f)]
         IN  IF r.err # "nil" THEN <<rec>>
             ELSE <<rec>> \o ReadLines(k, r.f, d, fuel - 1)

\* the bytes of u up to and including its first d, or all of u
RECURSIVE FirstLine(_, _)
FirstLine(u, d) ==
    IF u = <<>> THEN <<>>
    ELSE IF u[1] = d THEN <<d>>
    ELSE <<u[1]>> \o FirstLine(Tail(u), d)

\* the lines of u, each with a nil error and the cursor after it (from c0),
\* then an empty result with end-of-data
RECURSIVE Lines(_, _, _)
Lines(u, d, c0) ==
    IF u = <<>> THEN <<[data |-> <<>>, err |-> "EOF", cur |-> c0]>>
    ELSE LET l == FirstLine(u, d)
         IN  <<[data |-> l, err |-> "nil", cur |-> c0 + Len(l)]>>
                 \o Lines(SubSeq(u, Len(l) + 1, Len(u)), d, c0 + Len(l))

\* C11: when the unread content is made of lines that all end with the
\* delimiter, successive ReadString calls return the lines in order, each from
\* the cursor up to and including the next delimiter and moving the cursor to
\* its end, and then an empty result with end-of-data; ReadBytes returns what
\* ReadString returns.
C11_DelimitedLinesInOrder ==
    \A d \in Delims :
        (/\ Cursor(kind, fio) <= fio.len
         /\ (Unread(kind, fio) = <<>> \/ EndsWith(Unread(kind, fio), d))) =>
            /\ ReadLines(kind, fio, d, MaxTotal + 2)
                   = Lines(Unread(kind, fio), d, Cursor(kind, fio))
            /\ LET a == ReadBytes_(kind, fio, d)
                   b == ReadString_(kind, fio, d)
               IN  /\ a.data = b.data
                   /\ a.err = b.err
                   /\ Cursor(kind, a.f) = Cursor(kind, b.f)

\* C11 witness: two lines were returned and one more is unread
C11_Witness ==
    /\ last.op = "ReadString"
    /\ last.err = "nil"
    /\ Len(last.data) = 2
    /\ Len(readOut) = 4
    /\ Unread(kind, fio) = <<10>>

AtArgs == (AtChunks \cup {<<>>}) \X (0..(MaxLen + 1))

\* C13: WriteAt(p, pos) with pos >= 0 returns len(p) and nil; afterwards the
\* bytes at [pos, pos+len(p)) are p, every byte stored before outside that range
\* is as it was, the stored length is max(old length, pos+len(p)) and the read
\* cursor has not moved.
C13_WriteAtFrame ==
    \A a \in AtArgs :
        LET p == a[1]
            pos == a[2]
            r == WriteAt_(kind, fio, p, pos)
        IN  /\ r.err = "nil"
            /\ r.n = Len(p)
            /\ r.f.len = Max(fio.len, pos + Len(p))
            /\ Slice(r.f, pos, pos + Len(p)) = p
            /\ \A j \in 1..fio.len :
                  (j <= pos \/ j > pos + Len(p)) => r.f.arr[j] = fio.arr[j]
            /\ Cursor(kind, r.f) = Cursor(kind, fio)

\* C13 witness: a WriteAt at the end of a stored byte went beyond the capacity
\* and the byte is still there
C13_Witness ==
    /\ last.op = "WriteAt"
    /\ last.err = "nil"
    /\ last.n = 1
    /\ Cap(fio) = 2
    /\ Stored(fio) = <<97, 97>>

\* C14: after WriteAt(p, pos) with pos beyond the stored length every byte of
\* the gap [old length, pos) is zero.
C14_WriteAtGapZero ==
    \A a \in AtArgs :
        LET r == WriteAt_(kind, fio, a[1], a[2])
        IN  (a[2] > fio.len /\ r.err = "nil") =>
                \A j \in (fio.len + 1)..a[2] : r.f.arr[j] = 0

\* C16: a ReadAt call leaves the buffer (content, length, cursors, unread
\* marker) exactly as it was, whatever its arguments.
C16_ReadAtPure == [][last'.op = "ReadAt" => fio' = fio]_vars

\* C16 witness: a ReadAt returned a byte while the read cursor was elsewhere
C16_Witness ==
    /\ last.op = "ReadAt"
    /\ last.n = 1
    /\ last.data = <<97>>
    /\ Cursor(kind, fio) = 2

\* C17: ReadAt(b, off) returns an error and 0 when off is negative, 0 and
\* end-of-data when off is at or past the stored length, and otherwise the
\* n = min(len(b), length - off) stored bytes from off, with end-of-data exactly
\* when n < len(b) and nil when n = len(b).
C17_ReadAtResult ==
    \A k \in 0..(MaxRead + 1), off \in -1..(MaxLen + 1) :
        LET r == ReadAt_(kind, fio, k, off)
            n == Min(k, fio.len - off)
        IN  IF off < 0 THEN r.n = 0 /\ r.err = "error"
            ELSE IF off >= fio.len THEN r.n = 0 /\ r.err = "EOF" /\ r.data = <<>>
            ELSE /\ r.n = n
                 /\ r.data = SubSeq(Stored(fio), off + 1, off + n)
                 /\ r.err = "EOF" <=> n < k
                 /\ r.err = "nil" <=> n = k

\* C17 witness: a ReadAt copied fewer bytes than asked for and reported
\* end-of-data
C17_Witness ==
    /\ last.op = "ReadAt"
    /\ last.n = 1
    /\ last.err = "EOF"
    /\ fio.len = 2


\* a caller's loop `for { r, size, err := fio.ReadRune(); if err != nil {
\* break }; ... }`: every rune returned, its size and how far the cursor moved
RECURSIVE ReadRunes(_, _, _)
ReadRunes(k, f, fuel) ==
    IF fuel = 0 THEN <<>>
    ELSE LET x == ReadRune_(k, f)
         IN  IF x.err # "nil" THEN <<>>
             ELSE <<[r |-> x.r, size |-> x.n,
                     adv |-> Cursor(k, x.f) - Cursor(k, f)]>>
                  \o ReadRunes(k, x.f, fuel - 1)

\* C15: WriteRune of a valid code point returns the length of its encoding (1
\* below 128, otherwise 2 to 4) and grows the unread content by that many
\* bytes; a ReadRune loop over the result returns the code points pending
\* before followed by the new one, with the size WriteRune returned and the
\* cursor advancing by that size.
C15_RuneRoundTrip ==
    \A r \in RuneSet :
        LET w == WriteRune_(kind, fio, r)
            before == ReadRunes(kind, fio, fio.len + 1)
            after == ReadRunes(kind, w.f, w.f.len + 1)
        IN  /\ w.err = "nil"
            /\ w.n = RuneLen(r)
            /\ IF r < RuneSelf THEN w.n = 1 ELSE w.n \in 2..UTFMax
            /\ Len(Unread(kind, w.f)) = Len(Unread(kind, fio)) + w.n
            /\ Unread(kind, w.f) = Unread(kind, fio) \o EncodeRune(r)
            /\ after = before \o <<[r |-> r, size |-> w.n, adv |-> w.n]>>
            /\ \A j \in 1..Len(before) : before[j].size = before[j].adv

\* a four-byte code point written after another rune is read back whole
C15_Witness ==
    /\ last.op = "ReadRune"
    /\ last.err = "nil"
    /\ last.n = UTFMax
    /\ Len(written) > UTFMax
    /\ readOut = written


\* the number of written bytes no longer in fio.buf
Dropped == Len(written) - fio.len

C19_TruncateKeepsFirstN ==
    \A n \in -1..(MaxLen + 1) :
        LET t == Truncate_(kind, fio, n)
            u == Unread(kind, fio)
        IN  /\ IF n < 0 \/ n > Len(u) THEN t.err = "panic"
               ELSE IF n = 0 THEN t.err = "nil" /\ t.f = Reset_(kind, fio)
               ELSE /\ t.err = "nil"
                    /\ Unread(kind, t.f) = SubSeq(u, 1, n)
                    /\ Cap(t.f) = Cap(fio)
                    /\ Cursor(kind, t.f) = Cursor(kind, fio)
            /\ t.f.len <= fio.len


\* the write calls of a burst: the method and what it is given
WriteCalls ==
    {<<"Write", p>> : p \in Chunks} \cup {<<"WriteByte", c>> : c \in Bytes}
        \cup {<<"WriteRune", r>> : r \in Runes}

\* the number of bytes a write call appends
CallSize(c) ==
    IF c[1] = "Write" THEN Len(c[2])
    ELSE IF c[1] = "WriteByte" THEN 1
    ELSE Len(EncodeRune(c[2]))

CallResult(k, f, c) ==
    IF c[1] = "Write" THEN Write_(k, f, c[2])
    ELSE IF c[1] = "WriteByte" THEN WriteByte_(k, f, c[2])
    ELSE WriteRune_(k, f, c[2])

\* C20 (as stated): in mem.FakeIO and mem.SyncFakeIO, Grow(n) with n >= 0
\* leaves the unread content and Len() unchanged, and after it one or two
\* writes totalling at most n bytes leave Cap() unchanged.
C20_GrowReserves ==
    kind \in MemKinds /\ fio.off <= fio.len =>
        \A n \in 0..MaxLen :
            LET g == Grow_(kind, fio, n)
            IN  /\ g.err = "nil"
                /\ Unread(kind, g.f) = Unread(kind, fio)
                /\ \A c1 \in WriteCalls :
                       LET w1 == CallResult(kind, g.f, c1)
                       IN  /\ CallSize(c1) <= n => Cap(w1.f) = Cap(g.f)
                           /\ \A c2 \in WriteCalls :
                                  CallSize(c1) + CallSize(c2) <= n =>
                                      Cap(CallResult(kind, w1.f, c2).f) = Cap(g.f)


C22_LenIsUnread ==
    /\ Len_(kind, fio) = fio.len - Cursor(kind, fio)
    /\ Len_(kind, fio) = Len(Bytes_(kind, fio))
    /\ \A k \in 0..MaxRead :
           LET r == Read_(kind, fio, k)
           IN  Len_(kind, r.f) = Len_(kind, fio) - r.n
    /\ LET b == ReadByte_(kind, fio)
       IN  Len_(kind, b.f) = Len_(kind, fio) - Len(b.data)


\* C23 (as stated): WriteTo hands a sink that accepts everything exactly the
\* unread bytes, returns their count and nil, and leaves nothing unread; with
\* a sink that accepts only m bytes it returns m and consumes exactly m bytes.
C23_WriteToDrains ==
    kind # "MenFakeIO" /\ Cursor(kind, fio) <= fio.len =>
        \A room \in 0..MaxLen :
            LET u == Unread(kind, fio)
                w == WriteTo_(kind, fio, room)
            IN  IF room >= Len(u)
                THEN /\ w.err = "nil"
                     /\ w.data = u
                     /\ w.n = Len(u)
                     /\ Cursor(kind, w.f) = w.f.len
                ELSE /\ w.n = room
                     /\ w.data = SubSeq(u, 1, room)
                     /\ Unread(kind, w.f) = SubSeq(u, room + 1, Len(u))


\* all the bytes of a source, in order
RECURSIVE Flatten(_)
Flatten(src) == IF src = <<>> THEN <<>> ELSE src[1] \o Flatten(Tail(src))

\* C24 (as stated): ReadFrom of a source that yields a finite byte sequence in
\* chunks and then end-of-data appends all those bytes in order after the
\* bytes already buffered, returns their count and a nil error.
C24_ReadFromAbsorbs ==
    kind # "MenFakeIO" =>
        \A src \in Sources :
            LET r == ReadFrom_(kind, fio, src)
            IN  /\ r.err = "nil"
                /\ r.n = Len(Flatten(src))
                /\ Unread(kind, r.f) = Unread(kind, fio) \o Flatten(src)


\* C25 (as stated): when BufferToFile returns, it returns nil and the file
\* holds every byte of the reader in order.
C25_FileHoldsAll ==
    kind = "BufferToFile" /\ pc = <<"done">> =>
        last.err = "nil" /\ written = Flatten(wm)


\* find occurs in src as a contiguous run of code points
Occurs(find, src) ==
    \E k \in 0..(Len(src) - Len(find)) :
        \A j \in 1..Len(find) : src[k + j] = find[j]

\* C26 (as stated): for a non-empty find, FindUnicodeString(src, find) returns
\* true if and only if the code points of find occur contiguously in src.
C26_FindIffOccurs ==
    kind = "FindUnicodeString" /\ last.op = "FindUnicodeString" =>
        /\ last.err = "nil"
        /\ (last.n = 1) <=> Occurs(todo, wm)


\* C29 (as stated): in every reachable state the read cursor is within
\* 0..stored length, so Len() is not negative.
C29_CursorInRange ==
    /\ 0 <= Cursor(kind, fio)
    /\ Cursor(kind, fio) <= fio.len
    /\ Len_(kind, fio) >= 0

\* C30 (as stated): with the read cursor past the end of the stored data,
\* Read, ReadByte, ReadRune, ReadBytes and ReadString each report end-of-data
\* with no data, and none of them panics.
C30_PastEndIsEof ==
    Cursor(kind, fio) > fio.len =>
        /\ \A k \in 1..MaxRead :
               LET r == Read_(kind, fio, k) IN r.err = "EOF" /\ r.data = <<>>
        /\ LET r == ReadByte_(kind, fio) IN r.err = "EOF" /\ r.data = <<>>
        /\ LET r == ReadRune_(kind, fio) IN r.err = "EOF" /\ r.data = <<>>
        /\ \A d \in Delims :
               /\ LET r == ReadBytes_(kind, fio, d) IN r.err = "EOF" /\ r.data = <<>>
               /\ LET r == ReadString_(kind, fio, d) IN r.err = "EOF" /\ r.data = <<>>


\* C27 (as stated): in mem.SyncFakeIO and men_buffer.FakeIO no two callers are
\* inside operations that mutate the buffer at the same time.
C27_MutatorsExclusive ==
    kind \in LockKinds /\ DOMAIN pc = Writers =>
        \A w1, w2 \in Writers :
            w1 # w2 => pc[w1] = "idle" \/ pc[w2] = "idle"

\* C28 (as stated): in mem.SyncFakeIO the lock is free whenever no operation
\* is in progress.
C28_LockFreeWhenIdle ==
    kind = "SyncFakeIO" /\ DOMAIN pc = Writers =>
        ((\A w \in Writers : pc[w] = "idle") => lock = 0)


\* C31 (as stated): whenever UnreadByte or UnreadRune of mem.FakeIO or
\* mem.SyncFakeIO returns success, the read cursor has moved backward by
\* exactly the recorded size (1 for UnreadByte, the length of the last rune
\* for UnreadRune) and the marker is cleared, whatever was called between the
\* read and the unread.
C31_UnreadMovesBack ==
    kind \in MemKinds =>
        /\ LET u == UnreadByte_(kind, fio)
           IN  u.err = "nil" =>
                   u.f.off = fio.off - 1 /\ u.f.lastRead = opInvalid
        /\ LET u == UnreadRune_(kind, fio)
           IN  u.err = "nil" =>
                   u.f.off = fio.off - fio.lastRead /\ u.f.lastRead = opInvalid


\* C32 (as stated): immediately after any Seek call both UnreadByte and
\* UnreadRune fail with an error and leave the read cursor where Seek put it.
C32_SeekClearsMarker ==
    last.op = "Seek" =>
        /\ LET u == UnreadByte_(kind, fio)
           IN  u.err = "error" /\ Cursor(kind, u.f) = Cursor(kind, fio)
        /\ LET u == UnreadRune_(kind, fio)
           IN  u.err = "error" /\ Cursor(kind, u.f) = Cursor(kind, fio)


\* whether the call with result r, made in the current state, kept the
\* backing array or replaced a non-empty one by one at least twice as large
Doubles(r) ==
    Cap(fio) > 0 /\ Cap(r.f) > Cap(fio) => Cap(r.f) >= 2 * Cap(fio)

\* C33 (as stated): whenever an operation that adds bytes replaces the
\* backing storage of a buffer of non-zero capacity by a larger allocation,
\* the new capacity is at least twice the previous one.
C33_GrowthDoubles ==
    /\ \A p \in Chunks : Doubles(Write_(kind, fio, p))
    /\ \A c \in Bytes : Doubles(WriteByte_(kind, fio, c))
    /\ \A r \in Runes : Doubles(WriteRune_(kind, fio, r))
    /\ kind \in MemKinds => \A n \in 0..MaxLen : Doubles(Grow_(kind, fio, n))
    /\ \A a \in AtArgs : Doubles(WriteAt_(kind, fio, a[1], a[2]))


\* whether the call with result r, made in the current state, reported an
\* error and left the stored bytes, the stored length and the read cursor alone
Refused(r) ==
    /\ r.err = "error"
    /\ Stored(r.f) = Stored(fio)
    /\ r.f.len = fio.len
    /\ Cursor(kind, r.f) = Cursor(kind, fio)

\* C34 (as stated): ReadAt with a negative offset, Seek to a negative
\* position and WriteAt with a negative position each return an error, do
\* not panic, and leave content, length and read cursor unchanged.
C34_NegativeOffsetRefused ==
    /\ \A k \in 0..MaxRead : Refused(ReadAt_(kind, fio, k, -1))
    /\ Refused(Seek_(kind, fio, -1, SeekStart))
    /\ Refused(Seek_(kind, fio, -1 - Cursor(kind, fio), SeekCurrent))
    /\ Refused(Seek_(kind, fio, -1 - fio.len, SeekEnd))
    /\ \A p \in AtChunks : Refused(WriteAt_(kind, fio, p, -1))


\* C35 (as stated): in every variant the data returned by ReadBytes is a
\* copy: no later Write, WriteAt or Reset changes the bytes of a line that
\* ReadBytes returned earlier.
C35_ReadBytesIsCopy ==
    wl # <<>> => written = readOut


\* C36 (as stated): in men_buffer.FakeIO and mem.SingleFakeIO, after any
\* sequence of Write and WriteAt calls, Write(p) leaves the stored length at
\* least as large as before and leaves unchanged every stored byte outside the
\* len(p) bytes it writes at the write cursor.
C36_WriteKeepsStored ==
    kind \in {"SingleFakeIO", "MenFakeIO"} =>
        \A p \in Chunks :
            LET r == Write_(kind, fio, p)
            IN  /\ r.f.len >= fio.len
                /\ \A j \in 1..fio.len :
                       j <= fio.off \/ j > fio.off + Len(p) =>
                           j <= r.f.len /\ r.f.arr[j] = fio.arr[j]


\* C37 (as stated): a Seek that fails leaves the whole buffer state unchanged
\* in every variant, the last-read / previous-rune marker included, so a
\* following UnreadByte or UnreadRune gives the same result as without it.
C37_FailedSeekNoChange ==
    \A a \in SeekArgs :
        LET r == Seek_(kind, fio, a[1], a[2])
        IN  r.err = "error" =>
                /\ r.f = fio
                /\ UnreadByte_(kind, r.f) = UnreadByte_(kind, fio)
                /\ UnreadRune_(kind, r.f) = UnreadRune_(kind, fio)


\* rune values with no encoding of their own: negative, a surrogate, and
\* beyond the largest code point
BadRunes == {-1, 55296, MaxRune + 1}

\* C38 (as stated): in every variant WriteRune, for every rune value, invalid
\* ones included, returns a nil error and a length n between 1 and 4 and
\* appends exactly n bytes, the encoding of U+FFFD for an invalid value.
C38_WriteRuneTotal ==
    \A r \in RuneSet \cup BadRunes :
        LET w == WriteRune_(kind, fio, r)
        IN  /\ w.err = "nil"
            /\ w.n \in 1..UTFMax
            /\ Len(EncodeRune(r)) = w.n
            /\ Bytes_(kind, w.f) = Bytes_(kind, fio) \o EncodeRune(r)
            /\ r \in BadRunes => w.n = 3


\* C39 (as stated): mem.SyncFakeIO with ManualReset false, used by one caller,
\* behaves as mem.FakeIO: after any sequence of the shared methods, every
\* method called on the two in the same state returns, with the same results
\* and the same content, length, capacity, read cursor and last-read marker
\* left behind; SyncFakeIO's call returns only if its mutex is free.
C39_SyncAsFakeIO ==
    /\ \A p \in Chunks :
           /\ Sync_Write(fio, p) = FakeIO_Write(fio, p)
           /\ Sync_WriteString(fio, p) = FakeIO_WriteString(fio, p)
    /\ \A c \in Bytes : Sync_WriteByte(fio, c) = FakeIO_WriteByte(fio, c)
    /\ \A r \in Runes \cup BadRunes :
           Sync_WriteRune(fio, r) = FakeIO_WriteRune(fio, r)
    /\ \A a \in AtArgs : Sync_WriteAt(fio, a[1], a[2]) = FakeIO_WriteAt(fio, a[1], a[2])
    /\ \A k \in 0..MaxRead :
           /\ Sync_Read(fio, k) = FakeIO_Read(fio, k)
           /\ \A off \in -1..(MaxLen + 1) :
                  Sync_ReadAt(fio, k, off) = FakeIO_ReadAt(fio, k, off)
    /\ Sync_ReadByte(fio) = FakeIO_ReadByte(fio)
    /\ Sync_ReadRune(fio) = FakeIO_ReadRune(fio)
    /\ Sync_UnreadByte(fio) = FakeIO_UnreadByte(fio)
    /\ Sync_UnreadRune(fio) = FakeIO_UnreadRune(fio)
    /\ \A d \in Delims :
           /\ Sync_ReadBytes(fio, d) = FakeIO_ReadBytes(fio, d)
           /\ Sync_ReadString(fio, d) = FakeIO_ReadString(fio, d)
    /\ \A a \in SeekArgs : Sync_Seek(fio, a[1], a[2]) = FakeIO_Seek(fio, a[1], a[2])
    /\ \A n \in -1..(MaxLen + 1) :
           /\ Sync_Truncate(fio, n) = FakeIO_Truncate(fio, n)
           /\ Sync_Grow(fio, n) = FakeIO_Grow(fio, n)
           /\ Sync_Next(fio, n) = FakeIO_Next(fio, n)
    /\ Sync_Reset(fio) = FakeIO_Reset(fio)
    /\ Sync_Bytes(fio) = FakeIO_Bytes(fio)
    /\ Sync_len(fio) = FakeIO_Len(fio)
    /\ kind = "SyncFakeIO" => MutexFree(lock)

====
